---- MODULE Spec2Model ----
(***************************************************************************)
(* A model of four components of pulsar:                                   *)
(*   - pulsar/utils/pylib/events.py   (Event, EventHandler)                *)
(*   - pulsar/utils/http/parser.py    (HttpParser and its two subclasses)  *)
(*   - pulsar/apps/test/case.py       (TestRequest.run_test)               *)
(*   - pulsar/async/concurrency.py    (Concurrency descriptors)            *)
(* Each component has its own specification over the shared variables; the *)
(* variables of the other components stay at their initial values.         *)
(***************************************************************************)
EXTENDS Integers, Sequences, FiniteSets, TLC

VARIABLES
    \* ---- events.py ----
    events,     \* owner -> its _events registry (None, or name -> Event)
    futures,    \* the futures created by Event.waiter(), in creation order
    evLast,     \* what the last call on the event system did (observer)
    evCalls,    \* number of calls made on the event system so far
    fev,        \* an Event whose handlers call bind and unbind of it
    heap,       \* the list objects made for its handlers, by identity
    does,       \* what each handler of it does when it is called
    fpc,        \* where the call of fire() on it is
    flist,      \* the list object the loop of that fire() iterates
    fidx,       \* the index that loop is at
    finvoked,   \* the handlers that fire() has called, in order
    fbound,     \* the handlers that were bound when fire() was called
    \* ---- http/parser.py ----
    parser,     \* the attributes of one HttpParser and the callbacks it made
    input,      \* the bytes the connection delivers to the parser
    pending,    \* the part of input not yet passed to feed_data
    fedEmpty,   \* feed_data was called with empty data
    pLast,      \* how the last feed_data call ended
    \* ---- apps/test/case.py ----
    tcase,      \* the test case: its skip marks and the hooks it defines
    tpc,        \* the step the generator run_test is suspended at
    success,    \* the local variable success of run_test
    hooks,      \* the functions of the test case called so far, in order
    delivered,  \* the results of the steps run_test was resumed with
    stored,     \* test.result, once run_test has set it
    runner,     \* the records made with the runner
    rcls,       \* the test class of a TestRequest: marks, hooks, tests
    rpc,        \* the step the generator TestRequest.run is suspended at
    rnext,      \* the index of the test case run() is at
    should_stop,\* the local variable should_stop of run
    rlog,       \* the class hooks and runner notifications made, in order
    cdelivered, \* the results of the class steps run() was resumed with
    sent,       \* the test_result messages sent to the monitor
    mailbox,    \* the commands sent to the arbiter
    tworker,    \* test.worker
    \* ---- async/concurrency.py ----
    desc,       \* the Concurrency descriptor, None until it is created
    cRequest,   \* the arguments concurrency() was called with
    cLast,      \* the last call made on the descriptor and what it returned
    cCalls,     \* number of calls made on the descriptor so far
    stopResult, \* the result of actor.stop(force=True) that terminate() polls
    term        \* where the call of terminate() is

fireVars == <<fev, heap, does, fpc, flist, fidx, finvoked, fbound>>
evVars == <<events, futures, evLast, evCalls,
            fev, heap, does, fpc, flist, fidx, finvoked, fbound>>
parserVars == <<parser, input, pending, fedEmpty, pLast>>
runVars == <<rcls, rpc, rnext, should_stop, rlog, cdelivered, sent>>
testVars == <<tcase, tpc, success, hooks, delivered, stored, runner,
              rcls, rpc, rnext, should_stop, rlog, cdelivered, sent,
              mailbox, tworker>>
concVars == <<desc, cRequest, cLast, cCalls, stopResult, term>>

vars == <<events, futures, evLast, evCalls,
          fev, heap, does, fpc, flist, fidx, finvoked, fbound,
          parser, input, pending, fedEmpty, pLast,
          tcase, tpc, success, hooks, delivered, stored, runner,
          rcls, rpc, rnext, should_stop, rlog, cdelivered, sent,
          mailbox, tworker,
          desc, cRequest, cLast, cCalls, stopResult, term>>

(***************************************************************************)
(* Python's None for values that are otherwise sequences or numbers: an    *)
(* optional value is a sequence of length at most one.                     *)
(***************************************************************************)
None == <<>>
Some(x) == <<x>>
IsNone(o) == o = <<>>
Get(o) == o[1]

NoOwner == "None"

(***************************************************************************)
(*                         http/parser.py                                  *)
(* Bytes are sequences of one-character strings.                           *)
(***************************************************************************)
\* sys.maxsize, the "no declared length" value of content_length
MaxSize == 2147483647

CR == "\r"
LF == "\n"
CRLF == <<CR, LF>>

UpperCase == <<"A", "B", "C", "D", "E", "F", "G", "H", "I", "J", "K", "L", "M",
               "N", "O", "P", "Q", "R", "S", "T", "U", "V", "W", "X", "Y", "Z">>
LowerCase == <<"a", "b", "c", "d", "e", "f", "g", "h", "i", "j", "k", "l", "m",
               "n", "o", "p", "q", "r", "s", "t", "u", "v", "w", "x", "y", "z">>
Digits == <<"0", "1", "2", "3", "4", "5", "6", "7", "8", "9">>

Range(seq) == {seq[i] : i \in 1..Len(seq)}
PositionIn(seq, c) == CHOOSE i \in 1..Len(seq) : seq[i] = c

\* bytes.lower and bytes.upper
lower(b) == [i \in 1..Len(b) |->
                IF b[i] \in Range(UpperCase)
                THEN LowerCase[PositionIn(UpperCase, b[i])] ELSE b[i]]
upper(b) == [i \in 1..Len(b) |->
                IF b[i] \in Range(LowerCase)
                THEN UpperCase[PositionIn(LowerCase, b[i])] ELSE b[i]]

\* the bytes Python's split, strip and int treat as white space
IsSpace(c) == c \in {" ", "\t", CR, LF}
IsDigit(c) == c \in Range(Digits)

\* bytes.find of a two-byte or a one-byte pattern, counting from 0; -1 if absent
find2(b, pat) ==
    LET hits == {i \in 1..(Len(b) - 1) : b[i] = pat[1] /\ b[i + 1] = pat[2]}
    IN  IF hits = {} THEN -1
        ELSE (CHOOSE i \in hits : \A j \in hits : i <= j) - 1
find1(b, c) ==
    LET hits == {i \in 1..Len(b) : b[i] = c}
    IN  IF hits = {} THEN -1
        ELSE (CHOOSE i \in hits : \A j \in hits : i <= j) - 1

\* b[:idx] and b[idx:], idx counted from 0
UpTo(b, idx) == SubSeq(b, 1, idx)
From(b, idx) == SubSeq(b, idx + 1, Len(b))

\* bytes.lstrip() and bytes.strip() of white space, bytes.rstrip(b" \t")
RECURSIVE lstrip(_)
lstrip(b) == IF b # <<>> /\ IsSpace(Head(b)) THEN lstrip(Tail(b)) ELSE b
RECURSIVE rstrip(_)
rstrip(b) ==
    IF b # <<>> /\ IsSpace(b[Len(b)]) THEN rstrip(UpTo(b, Len(b) - 1)) ELSE b
RECURSIVE rstrip_blank(_)
rstrip_blank(b) ==
    IF b # <<>> /\ b[Len(b)] \in {" ", "\t"}
    THEN rstrip_blank(UpTo(b, Len(b) - 1)) ELSE b
strip(b) == rstrip(lstrip(b))

\* length of the longest prefix of b made of bytes that satisfy a test
RECURSIVE SpanNotSpace(_)
SpanNotSpace(b) ==
    IF b # <<>> /\ ~IsSpace(Head(b)) THEN 1 + SpanNotSpace(Tail(b)) ELSE 0
RECURSIVE SpanDigits(_)
SpanDigits(b) ==
    IF b # <<>> /\ IsDigit(Head(b)) THEN 1 + SpanDigits(Tail(b)) ELSE 0

\* bytes.split(None, maxsplit)
RECURSIVE split(_, _)
split(b, maxsplit) ==
    LET s == lstrip(b) IN
    IF s = <<>> THEN <<>>
    ELSE IF maxsplit = 0 THEN <<s>>
    ELSE LET n == SpanNotSpace(s)
         IN  <<UpTo(s, n)>> \o split(From(s, n), maxsplit - 1)

\* int() of a run of decimal digits
RECURSIVE DigitsValue(_)
DigitsValue(b) ==
    IF b = <<>> THEN 0
    ELSE 10 * DigitsValue(UpTo(b, Len(b) - 1))
         + (PositionIn(Digits, b[Len(b)]) - 1)

\* int(value) of bytes: None stands for ValueError
int(value) ==
    LET s == strip(value)
        signed == s # <<>> /\ s[1] \in {"+", "-"}
        digs == IF signed THEN Tail(s) ELSE s
    IN  IF digs = <<>> \/ SpanDigits(digs) # Len(digs) THEN None
        ELSE IF signed /\ s[1] = "-" THEN Some(0 - DigitsValue(digs))
        ELSE Some(DigitsValue(digs))

\* METHOD_RE.match: the class [A-Z0-9$-_.] holds the bytes from "$" to "_"
MethodClass ==
    Range(UpperCase) \cup Range(Digits)
    \cup {"$", "%", "&", "'", "(", ")", "*", "+", ",", "-", ".", "/", ":", ";",
          "<", "=", ">", "?", "@", "[", "\\", "]", "^", "_"}
METHOD_RE_match(b) ==
    Len(b) >= 3 /\ \A i \in 1..3 : b[i] \in MethodClass

\* VERSION_RE.match (HTTP/(\d+).(\d+)): None, or the two groups as numbers;
\* the first group is the longest run of digits that leaves a match
VERSION_RE_match(b) ==
    IF Len(b) < 5 \/ UpTo(b, 5) # <<"H", "T", "T", "P", "/">> THEN None
    ELSE LET rest == From(b, 5)
             run == SpanDigits(rest)
             ok == {g \in 1..run :
                      /\ Len(rest) > g
                      /\ rest[g + 1] # LF
                      /\ SpanDigits(From(rest, g + 1)) > 0}
         IN  IF ok = {} THEN None
             ELSE LET g == CHOOSE g \in ok : \A h \in ok : h <= g
                      tail == From(rest, g + 1)
                  IN  Some(<<DigitsValue(UpTo(rest, g)),
                             DigitsValue(UpTo(tail, SpanDigits(tail)))>>)

\* STATUS_RE.match ((\d{3})\s*(\w*)): None, or the first group as a number
STATUS_RE_match(b) ==
    IF Len(b) >= 3 /\ \A i \in 1..3 : IsDigit(b[i])
    THEN Some(DigitsValue(UpTo(b, 3)))
    ELSE None

\* the members of the enum F
F == {"CHUNKED", "CONNECTION_KEEP_ALIVE", "CONNECTION_CLOSE",
      "CONNECTION_UPGRADE", "TRAILING", "UPGRADE", "SKIPBODY", "CONTENTLENGTH"}

\* a protocol callback made by the parser
Callback(cb, args) == [cb |-> cb, args |-> args]
Called(p, cb, args) == [p EXCEPT !.calls = Append(p.calls, Callback(cb, args))]

\* HttpParser.__init__, from HttpRequestParser or HttpResponseParser
HttpParser(type) ==
    [type |-> type, buf |-> <<>>, flags |-> {}, _position |-> 0,
     content_length |-> MaxSize, _clen_rest |-> MaxSize,
     method |-> None, version_major |-> None, version_minor |-> None,
     version |-> None, status |-> None, status_code |-> None,
     calls |-> <<>>]

Raise(p, error) == [p |-> p, raised |-> error]
Return(p) == [p |-> p, raised |-> ""]

\* HttpRequestParser.parse_first_line
request_parse_first_line(p, line) ==
    LET bits == split(line, 2) IN
    IF Len(bits) # 3 THEN Raise(p, "HttpParserError")
    ELSE IF ~METHOD_RE_match(bits[1])
    THEN Raise(p, "HttpParserInvalidMethodError")
    ELSE LET p1 == Called([p EXCEPT !.method = Some(upper(bits[1]))],
                          "on_url", <<bits[2]>>)
             matchv == VERSION_RE_match(bits[3])
         IN  IF IsNone(matchv) THEN Raise(p1, "HttpParserError")
             ELSE Return([p1 EXCEPT !.version_major = Some(Get(matchv)[1]),
                                    !.version_minor = Some(Get(matchv)[2]),
                                    !.version = matchv])

\* HttpResponseParser.parse_first_line; the message of the invalid-status
\* error is built with "Invalid status %" % bits[1], which raises ValueError
response_parse_first_line(p, line) ==
    LET bits == split(line, 1) IN
    IF Len(bits) # 2 THEN Raise(p, "HttpParserError")
    ELSE LET matchv == VERSION_RE_match(bits[1])
             matchs == STATUS_RE_match(bits[2])
         IN  IF IsNone(matchv) THEN Raise(p, "HttpParserError")
             ELSE IF IsNone(matchs) THEN Raise(p, "ValueError")
             ELSE Return([Called(p, "on_status", <<bits[2]>>) EXCEPT
                            !.version_major = Some(Get(matchv)[1]),
                            !.version_minor = Some(Get(matchv)[2]),
                            !.version = matchv,
                            !.status = Some(bits[2]),
                            !.status_code = matchs])

parse_first_line(p, line) ==
    IF p.type = "HTTP_REQUEST" THEN request_parse_first_line(p, line)
    ELSE response_parse_first_line(p, line)

\* value == 'keep-alive' and the like in HttpParser._connection: value is
\* bytes and the literal a str, which Python 3 never finds equal
BytesEqualsStr(value, literal) == FALSE

\* HttpParser._connection: the flags afterwards
_connection(flags, value0) ==
    LET value == lower(value0) IN
    IF BytesEqualsStr(value, "keep-alive")
    THEN flags \cup {"CONNECTION_KEEP_ALIVE"}
    ELSE IF BytesEqualsStr(value, "close")
    THEN flags \cup {"CONNECTION_CLOSE"}
    ELSE IF BytesEqualsStr(value, "upgrade")
    THEN flags \cup {"CONNECTION_UPGRADE"}
    ELSE flags

Bconnection == <<"c", "o", "n", "n", "e", "c", "t", "i", "o", "n">>
Bcontent_length ==
    <<"c", "o", "n", "t", "e", "n", "t", "-", "l", "e", "n", "g", "t", "h">>
Btransfer_encoding ==
    <<"t", "r", "a", "n", "s", "f", "e", "r", "-",
      "e", "n", "c", "o", "d", "i", "n", "g">>
Bchunked == <<"c", "h", "u", "n", "k", "e", "d">>

\* the effect on the parser of one header line that has a colon
Header(p, chunk) ==
    LET colon == find1(chunk, ":")
        value == lstrip(From(chunk, colon + 1))
        name0 == strip(rstrip_blank(UpTo(chunk, colon)))
        p1 == Called(p, "on_header", <<name0, value>>)
        name == lower(name0)
    IN  IF name = Bconnection
        THEN [p1 EXCEPT !.flags = _connection(p1.flags, value)]
        ELSE IF name = Bcontent_length
        THEN IF IsNone(int(value)) THEN p1
             ELSE IF Get(int(value)) < 0
                  THEN [p1 EXCEPT !.content_length = MaxSize]
                  ELSE [p1 EXCEPT !.content_length = Get(int(value))]
        ELSE IF name = Btransfer_encoding
        THEN IF lower(value) = Bchunked
             THEN [p1 EXCEPT !.flags = p1.flags \cup {"CHUNKED"}]
             ELSE p1
        ELSE p1

\* HttpParser._parse_headers: the parser afterwards and the value returned,
\* False when the buffer holds no full line and None (the function ends
\* without a return) when the header block is complete
RECURSIVE _parse_headers(_)
_parse_headers(p) ==
    LET idx == find2(p.buf, CRLF) IN
    IF idx < 0 THEN [p |-> p, ret |-> "False"]
    ELSE LET chunk == UpTo(p.buf, idx)
             p1 == [p EXCEPT !.buf = From(p.buf, idx + 2)]
         IN  IF idx = 0
             THEN [p |-> Called([p1 EXCEPT !._clen_rest = p1.content_length,
                                           !._position = 2],
                                "on_headers_complete", <<>>),
                   ret |-> "None"]
             ELSE IF find1(chunk, ":") < 0 THEN _parse_headers(p1)
             ELSE _parse_headers(Header(p1, chunk))

\* HttpParser._parse_body: its first statement reads self._buf, an attribute
\* no code of the class sets (the buffer is self.buf), so every call raises
\* AttributeError before any other effect
_parse_body(p) == Raise(p, "AttributeError")

\* HttpParser.is_headers_complete, HttpParser.is_message_complete
is_headers_complete(p) == p._position > 1
is_message_complete(p) == p._position > 2

\* the loop of HttpParser.feed_data; "hang" stands for the loop that never
\* ends: with _position = 3 no branch of the loop is taken and none leaves it
RECURSIVE FeedLoop(_)
FeedLoop(p) ==
    IF p._position = 0
    THEN LET idx == find2(p.buf, CRLF) IN
         IF idx < 0 THEN Return(p)
         ELSE LET r == parse_first_line([p EXCEPT !._position = 1],
                                        UpTo(p.buf, idx))
              IN  IF r.raised # "" THEN r
                  ELSE FeedLoop([r.p EXCEPT !.buf = From(r.p.buf, idx + 2)])
    ELSE IF ~is_headers_complete(p)
    THEN LET h == _parse_headers(p)
         IN  IF h.ret \in {"False", "None"} THEN Return(h.p) ELSE FeedLoop(h.p)
    ELSE IF ~is_message_complete(p)
    THEN _parse_body(p)
    ELSE Raise(p, "hang")

\* feed_data without the test of is_message_complete before an empty feed
feed_data_unguarded(p, data) ==
    IF data = <<>>
    THEN Return(Called([p EXCEPT !._position = 3],
                       "on_message_complete", <<>>))
    ELSE FeedLoop([p EXCEPT !.buf = p.buf \o data])

\* HttpParser.feed_data
feed_data(p, data) ==
    IF data = <<>>
    THEN IF ~is_message_complete(p)
         THEN Return(Called([p EXCEPT !._position = 3],
                            "on_message_complete", <<>>))
         ELSE Return(p)
    ELSE FeedLoop([p EXCEPT !.buf = p.buf \o data])

\* HttpParser.http_message_needs_eof
http_message_needs_eof(p) ==
    IF p.type = "HTTP_REQUEST" THEN FALSE
    ELSE IF \/ Get(p.status_code) \div 100 = 1
            \/ Get(p.status_code) = 204
            \/ Get(p.status_code) = 304
            \/ "SKIPBODY" \in p.flags
    THEN FALSE
    ELSE IF "CHUNKED" \in p.flags \/ p.content_length # MaxSize THEN FALSE
    ELSE TRUE

\* HttpParser.should_keep_alive
should_keep_alive(p) ==
    IF Get(p.version_major) > 0 /\ Get(p.version_minor) > 0
    THEN IF "CONNECTION_CLOSE" \in p.flags THEN FALSE
         ELSE ~http_message_needs_eof(p)
    ELSE IF "CONNECTION_KEEP_ALIVE" \in p.flags THEN FALSE
    ELSE ~http_message_needs_eof(p)

\* the parser of a model that makes no call on it
ParserIdle ==
    /\ parser = HttpParser("HTTP_REQUEST")
    /\ input = <<>>
    /\ pending = <<>>
    /\ fedEmpty = FALSE
    /\ pLast = ""

(***************************************************************************)
(*                         apps/test/case.py                               *)
(* TestRequest.run_test is a generator: it calls a function of the test    *)
(* case through run_test_function, yields the outcome, and goes on when it *)
(* is resumed with the result of the step.  A result is the sequence of    *)
(* the traces of a failure, empty when the step did not fail; a trace is   *)
(* "failure" when its error is a test.failureException, else "error".      *)
(***************************************************************************)
\* bound of the model: traces in one failure
MaxTraces == 2

TraceKinds == {"failure", "error"}
RECURSIVE SeqsUpTo(_, _)
SeqsUpTo(S, n) ==
    IF n = 0 THEN {<<>>}
    ELSE LET shorter == SeqsUpTo(S, n - 1)
         IN  shorter \cup {Append(q, x) : q \in {r \in shorter : Len(r) = n - 1},
                                          x \in S}
Results == SeqsUpTo(TraceKinds, MaxTraces)

ClassReasons == {"", "class off"}
MethodReasons == {"", "not ready"}

\* the test cases: __unittest_skip__ and __unittest_skip_why__ of the class
\* and of the test method (set together by the skip decorators), and whether
\* the instance has _pre_setup and _post_teardown
TestCases ==
    {c \in [cls_skip : BOOLEAN, cls_why : ClassReasons,
            method_skip : BOOLEAN, method_why : MethodReasons,
            _pre_setup : BOOLEAN, _post_teardown : BOOLEAN] :
        /\ (~c.cls_skip => c.cls_why = "")
        /\ (~c.method_skip => c.method_why = "")}

\* pulsar.is_failure
is_failure(failure) == failure # <<>>

\* the loop of TestRequest.add_failure over the traces
RECURSIVE AddTraces(_, _)
AddTraces(run, failure) ==
    IF failure = <<>> THEN run
    ELSE AddTraces(IF Head(failure) = "failure"
                   THEN [run EXCEPT !.failures = @ + 1]
                   ELSE [run EXCEPT !.errors = @ + 1],
                   Tail(failure))

\* TestRequest.add_failure with "return False" for a failure too
add_failure_false(run, failure) ==
    IF is_failure(failure)
    THEN [runner |-> AddTraces(run, failure), ret |-> FALSE]
    ELSE [runner |-> run, ret |-> FALSE]

\* TestRequest.add_failure: the runner afterwards and the value returned
add_failure(run, failure) ==
    IF is_failure(failure)
    THEN [runner |-> AddTraces(run, failure), ret |-> TRUE]
    ELSE [runner |-> run, ret |-> FALSE]

\* the test for a skipped test without the mark of the method
Skipped_class(c) == c.cls_skip

\* the test of run_test for a skipped test
Skipped(c) == c.cls_skip \/ c.method_skip

\* the reason run_test passes to addSkip ('' is false to Python's or)
SkipReason(c) == IF c.cls_why # "" THEN c.cls_why ELSE c.method_why

NoRecords == [successes |-> 0, failures |-> 0, errors |-> 0, skips |-> <<>>]

\* no TestRequest.run is in progress
RunIdle ==
    /\ rcls = [skip |-> FALSE, setUpClass |-> FALSE, tearDownClass |-> FALSE,
               tests |-> <<>>, on_arbiter |-> {}]
    /\ rpc = "idle"
    /\ rnext = 0
    /\ should_stop = FALSE
    /\ rlog = <<>>
    /\ cdelivered = <<>>
    /\ sent = <<>>
    /\ mailbox = <<>>
    /\ tworker = "worker"

\* the test engine of a model that runs no test
TestIdle ==
    /\ tcase = [cls_skip |-> FALSE, cls_why |-> "", method_skip |-> FALSE,
                method_why |-> "", _pre_setup |-> FALSE,
                _post_teardown |-> FALSE]
    /\ tpc = "start"
    /\ success = TRUE
    /\ hooks = <<>>
    /\ delivered = <<>>
    /\ stored = None
    /\ runner = NoRecords
    /\ RunIdle

\* the effective run_test_function (the second definition of the module,
\* which replaces the first): None for a function that is None, else the
\* function is looked up on the test and called in the calling actor through
\* safe_async; the attribute run_on_arbiter of func is not read, test.worker
\* is not assigned and nothing is sent
run_test_function(worker, box, func) ==
    IF IsNone(func)
    THEN [worker |-> worker, box |-> box, outcome |-> None]
    ELSE [worker |-> worker, box |-> box, outcome |-> Some(Get(func).name)]

\* the function called name of the class under test
Func(name) == [name |-> name, run_on_arbiter |-> name \in rcls.on_arbiter]

\* the effect of run_test_function(test, func) on test.worker and on the
\* arbiter's mailbox
Dispatch(name) ==
    LET r == run_test_function(tworker, mailbox, Some(Func(name)))
    IN  /\ tworker' = r.worker
        /\ mailbox' = r.box

\* run_test_function(test, func) is called and its outcome yielded
Yield(func) ==
    /\ hooks' = Append(hooks, func)
    /\ tpc' = func
    /\ Dispatch(func)

\* the end of run_test without the call of addSuccess
Finish_silent(ok, run) ==
    /\ tpc' = "done"
    /\ success' = ok
    /\ runner' = run
    /\ UNCHANGED <<mailbox, tworker>>

\* the end of run_test with addSuccess called whatever success is
Finish_always(ok, run) ==
    /\ tpc' = "done"
    /\ success' = ok
    /\ runner' = [run EXCEPT !.successes = @ + 1]
    /\ UNCHANGED <<mailbox, tworker>>

\* the end of run_test, after the try statement
Finish(ok, run) ==
    /\ tpc' = "done"
    /\ success' = ok
    /\ runner' = IF ok THEN [run EXCEPT !.successes = @ + 1] ELSE run
    /\ UNCHANGED <<mailbox, tworker>>

\* run_test from "if hasattr(test, '_post_teardown')" on
PostTeardown(ok, run) ==
    IF tcase._post_teardown
    THEN /\ Yield("_post_teardown")
         /\ success' = ok
         /\ runner' = run
    ELSE /\ Finish(ok, run)
         /\ UNCHANGED hooks

\* run_test from "if success:" with success true: setUp is called
SetUp(run) ==
    /\ Yield("setUp")
    /\ success' = TRUE
    /\ runner' = run

TestStep == UNCHANGED <<tcase, runVars, evVars, parserVars, concVars>>

\* run_test up to its first yield, or to its end for a skipped test
StartTest ==
    /\ tpc = "start"
    /\ TestStep
    /\ UNCHANGED <<delivered, stored>>
    /\ IF Skipped(tcase)
       THEN /\ Finish(FALSE, [runner EXCEPT
                                !.skips = Append(@, SkipReason(tcase))])
            /\ UNCHANGED hooks
       ELSE IF tcase._pre_setup
       THEN /\ Yield("_pre_setup")
            /\ UNCHANGED <<success, runner>>
       ELSE SetUp(runner)

\* run_test resumed with the result of _pre_setup
AfterPreSetup(result) ==
    /\ tpc = "_pre_setup"
    /\ TestStep
    /\ delivered' = Append(delivered, result)
    /\ UNCHANGED stored
    /\ LET a == add_failure(runner, result)
       IN  IF ~a.ret THEN SetUp(a.runner)
           ELSE PostTeardown(FALSE, a.runner)

\* run_test resumed with the result of setUp
AfterSetUp(result) ==
    /\ tpc = "setUp"
    /\ TestStep
    /\ delivered' = Append(delivered, result)
    /\ UNCHANGED stored
    /\ LET a == add_failure(runner, result)
       IN  IF ~a.ret
           THEN /\ Yield("testMethod")
                /\ runner' = a.runner
                /\ UNCHANGED success
           ELSE PostTeardown(FALSE, a.runner)

\* run_test resumed with the result of the test method, with tearDown
\* called only after a test method that did not fail
AfterTest_skip(result) ==
    /\ tpc = "testMethod"
    /\ TestStep
    /\ delivered' = Append(delivered, result)
    /\ LET a == add_failure(runner, result)
       IN  IF ~a.ret
           THEN /\ success' = TRUE
                /\ stored' = Some(result)
                /\ runner' = a.runner
                /\ Yield("tearDown")
           ELSE /\ UNCHANGED stored
                /\ PostTeardown(FALSE, a.runner)

\* run_test resumed with the result of the test method
AfterTest(result) ==
    /\ tpc = "testMethod"
    /\ TestStep
    /\ delivered' = Append(delivered, result)
    /\ LET a == add_failure(runner, result)
       IN  /\ success' = ~a.ret
           /\ stored' = IF ~a.ret THEN Some(result) ELSE stored
           /\ runner' = a.runner
           /\ Yield("tearDown")

\* run_test resumed with the result of tearDown
AfterTearDown(result) ==
    /\ tpc = "tearDown"
    /\ TestStep
    /\ delivered' = Append(delivered, result)
    /\ UNCHANGED stored
    /\ LET a == add_failure(runner, result)
       IN  PostTeardown(IF a.ret THEN FALSE ELSE success, a.runner)

\* run_test resumed with the result of _post_teardown
AfterPostTeardown(result) ==
    /\ tpc = "_post_teardown"
    /\ TestStep
    /\ delivered' = Append(delivered, result)
    /\ UNCHANGED <<stored, hooks>>
    /\ LET a == add_failure(runner, result)
       IN  Finish(IF a.ret THEN FALSE ELSE success, a.runner)

NextTest ==
    \/ StartTest
    \/ \E result \in Results : AfterPreSetup(result)
    \/ \E result \in Results : AfterSetUp(result)
    \/ \E result \in Results : AfterTest(result)
    \/ \E result \in Results : AfterTearDown(result)
    \/ \E result \in Results : AfterPostTeardown(result)


(***************************************************************************)
(*                         async/concurrency.py                            *)
(* Dictionaries are functions from their keys; the monitors, proxies and   *)
(* actor classes the descriptor refers to are named by strings.            *)
(***************************************************************************)
\* bounds of the model
MaxTimeout == 2
MaxConcCalls == 3

Kinds == {"monitor", "thread", "process", "greenlet"}
Monitors == {"arbiter", "monitor1"}
Aids == {"", "a1"}
UniqueIds == {"0f3c9a71", "b2d41e08"}
KwargSets ==
    {kw \in UNION {[K -> {"v"}] : K \in SUBSET {"loglevel", "name"}} : TRUE}

\* monitor.is_arbiter(), monitor.arbiter and the proxy attribute
is_arbiter(monitor) == monitor = "arbiter"
arbiter_of(monitor) == "arbiter"
proxy(actor) == IF actor = "arbiter" THEN "arbiter.proxy" ELSE "monitor1.proxy"

\* dict without a key, and dict[key] = value
Without(d, key) == [k \in DOMAIN d \ {key} |-> d[k]]
With(d, key, value) ==
    [k \in DOMAIN d \cup {key} |-> IF k = key THEN value ELSE d[k]]

\* the class concurrency() chooses, None for a kind it does not support
ClassOf(kind) ==
    IF kind = "monitor" THEN Some("MonitorConcurrency")
    ELSE IF kind = "thread" THEN Some("ActorThread")
    ELSE IF kind = "process" THEN Some("ActorProcess")
    ELSE None

\* Concurrency.process_actor with the actors themselves for their proxies
process_actor_raw(d, monitor) ==
    LET arbiter == IF is_arbiter(monitor) THEN monitor ELSE arbiter_of(monitor)
    IN  [d EXCEPT !.a_kwargs = With(With(d.a_kwargs, "arbiter", arbiter),
                                    "monitor", monitor)]

\* Concurrency.process_actor
process_actor(d, monitor) ==
    LET arbiter == IF is_arbiter(monitor) THEN monitor ELSE arbiter_of(monitor)
    IN  [d EXCEPT !.a_kwargs = With(With(d.a_kwargs, "arbiter", proxy(arbiter)),
                                    "monitor", proxy(monitor))]

\* MonitorConcurrency.process_actor without the reset of the timeout
monitor_process_actor_timed(d, arbiter) ==
    LET d1 == [d EXCEPT !.a_kwargs = With(d.a_kwargs, "arbiter", arbiter)]
    IN  [d1 EXCEPT !.actor = Some([class |-> d1.actor_class,
                                   kwargs |-> d1.a_kwargs])]

\* MonitorConcurrency.process_actor
monitor_process_actor(d, arbiter) ==
    LET d1 == [d EXCEPT !.a_kwargs = With(d.a_kwargs, "arbiter", arbiter),
                        !.timeout = 0]
    IN  [d1 EXCEPT !.actor = Some([class |-> d1.actor_class,
                                   kwargs |-> d1.a_kwargs])]

\* Concurrency.make, for the class cls and an id drawn by gen_unique_id
make(cls, kind, actor_class, timeout, monitor, aid0, commands_set, kwargs, uid) ==
    LET aid == IF aid0 = ""
               THEN IF is_arbiter(monitor) THEN "arbiter" ELSE uid
               ELSE aid0
        self == [cls |-> cls, aid |-> aid, impl |-> kind,
                 commands_set |-> commands_set, timeout |-> timeout,
                 actor_class |-> actor_class,
                 loglevel |-> IF "loglevel" \in DOMAIN kwargs
                              THEN Some(kwargs["loglevel"]) ELSE None,
                 a_kwargs |-> Without(kwargs, "loglevel"),
                 actor |-> None, started |-> FALSE]
    IN  IF cls = "MonitorConcurrency"
        THEN monitor_process_actor(self, monitor)
        ELSE process_actor(self, monitor)

\* the descriptor of a model that creates none
ConcIdle ==
    /\ desc = None
    /\ cRequest = None
    /\ cLast = [op |-> "", ret |-> ""]
    /\ cCalls = 0
    /\ stopResult = "none"
    /\ term = "idle"

ConcStep ==
    /\ cCalls < MaxConcCalls
    /\ cCalls' = cCalls + 1
    /\ UNCHANGED <<stopResult, term, evVars, parserVars, testVars>>

\* concurrency(kind, actor_class, timeout, monitor, aid, commands_set, params)
Create(kind, timeout, monitor, aid, kwargs, uid) ==
    /\ IsNone(desc)
    /\ ConcStep
    /\ cRequest' = Some([kind |-> kind, timeout |-> timeout,
                         monitor |-> monitor, aid |-> aid, kwargs |-> kwargs])
    /\ IF IsNone(ClassOf(kind))
       THEN /\ cLast' = [op |-> "concurrency", ret |-> "ValueError"]
            /\ UNCHANGED desc
       ELSE /\ desc' = Some(make(Get(ClassOf(kind)), kind, "Actor", timeout,
                                 monitor, aid, {"ping"}, kwargs, uid))
            /\ cLast' = [op |-> "concurrency", ret |-> "descriptor"]

\* ActorConcurrency.run, which start() of the thread or process runs
run(d) == [d EXCEPT !.actor = Some([class |-> d.actor_class,
                                    kwargs |-> d.a_kwargs]),
                    !.started = TRUE]

\* descriptor.start(): a no-op of MonitorConcurrency, Thread.start or
\* Process.start otherwise (which refuse a second start)
Start ==
    /\ ~IsNone(desc)
    /\ ConcStep
    /\ UNCHANGED cRequest
    /\ IF Get(desc).cls = "MonitorConcurrency"
       THEN /\ cLast' = [op |-> "start", ret |-> "None"]
            /\ UNCHANGED desc
       ELSE IF Get(desc).started
       THEN /\ cLast' = [op |-> "start", ret |-> "RuntimeError"]
            /\ UNCHANGED desc
       ELSE /\ cLast' = [op |-> "start", ret |-> "None"]
            /\ desc' = Some(run(Get(desc)))

\* Concurrency.proxy_monitor and MonitorConcurrency.proxy_monitor
proxy_monitor(d) ==
    IF d.cls = "MonitorConcurrency" THEN "None" ELSE "ActorProxyMonitor"

\* descriptor.proxy_monitor()
ProxyMonitor ==
    /\ ~IsNone(desc)
    /\ ConcStep
    /\ cLast' = [op |-> "proxy_monitor", ret |-> proxy_monitor(Get(desc))]
    /\ UNCHANGED <<desc, cRequest>>

\* MonitorConcurrency.is_active, with the answer of actor.is_alive()
IsActive(alive) ==
    /\ ~IsNone(desc)
    /\ Get(desc).cls = "MonitorConcurrency"
    /\ ConcStep
    /\ cLast' = [op |-> "is_active", ret |-> IF alive THEN "True" ELSE "False"]
    /\ UNCHANGED <<desc, cRequest>>

\* ActorThread.terminate up to its first test of result.called: the actor
\* is asked to stop, and the result of the stop is delivered at once or is
\* still to be delivered
Terminate(called) ==
    /\ ~IsNone(desc)
    /\ Get(desc).cls = "ActorThread"
    /\ Get(desc).started
    /\ term = "idle"
    /\ cCalls < MaxConcCalls
    /\ cCalls' = cCalls + 1
    /\ stopResult' = IF called THEN "called" ELSE "pending"
    /\ term' = "polling"
    /\ cLast' = [op |-> "terminate", ret |-> ""]
    /\ UNCHANGED <<desc, cRequest, evVars, parserVars, testVars>>

\* the thread of the actor delivers the result of the stop
Deliver ==
    /\ stopResult = "pending"
    /\ stopResult' = "called"
    /\ UNCHANGED <<desc, cRequest, cLast, cCalls, term,
                   evVars, parserVars, testVars>>

\* one test of "while result.called" in terminate: sleep(0.1) and test
\* again when the result was delivered, return when it was not
Poll ==
    /\ term = "polling"
    /\ IF stopResult = "called"
       THEN /\ term' = "polling"
            /\ UNCHANGED cLast
       ELSE /\ term' = "returned"
            /\ cLast' = [op |-> "terminate", ret |-> "None"]
    /\ UNCHANGED <<desc, cRequest, cCalls, stopResult,
                   evVars, parserVars, testVars>>

(***************************************************************************)
(*                         events.py                                       *)
(***************************************************************************)
\* bounds of the model
MaxHandlers == 2
MaxFutures == 2
MaxCalls == 6

Owners == {"A", "B"}
Names == {"ready", "start"}
Handlers == {"H1", "H2"}
Excs == {"E1"}
Datas == {"D1"}

\* EventHandler.ONE_TIME_EVENTS of the class of each owner (a tuple of names;
\* the class of B leaves the default, which event() reads as the empty tuple)
ONE_TIME_EVENTS == [o \in Owners |-> IF o = "A" THEN <<"start">> ELSE <<>>]

\* Event.__init__
Event(name, o, onetime) ==
    [name |-> name, _onetime |-> onetime, _self |-> o,
     _handlers |-> None, _waiter |-> None]

\* Event.fired
fired(ev) == ev._self = NoOwner

\* Event.onetime
onetime(ev) == ev._onetime # 0

\* truth value of a Python list-or-None
Truthy(h) == ~IsNone(h) /\ Len(Get(h)) > 0

\* Event.bind without the test of the owner
bind_unguarded(ev, callback) ==
    LET handlers == IF IsNone(ev._handlers) THEN <<>> ELSE Get(ev._handlers)
    IN  [ev |-> [ev EXCEPT !._handlers = Some(Append(handlers, callback))],
         raised |-> FALSE]

\* Event.bind: the event afterwards and whether RuntimeError was raised
bind(ev, callback) ==
    IF ev._self = NoOwner
    THEN [ev |-> ev, raised |-> TRUE]
    ELSE LET handlers == IF IsNone(ev._handlers) THEN <<>> ELSE Get(ev._handlers)
         IN  [ev |-> [ev EXCEPT !._handlers = Some(Append(handlers, callback))],
              raised |-> FALSE]

\* Event.clear
clear(ev) == [ev EXCEPT !._handlers = None]

\* the list comprehension of Event.unbind
RECURSIVE Filtered(_, _)
Filtered(handlers, callback) ==
    IF handlers = <<>> THEN <<>>
    ELSE IF Head(handlers) # callback
         THEN <<Head(handlers)>> \o Filtered(Tail(handlers), callback)
         ELSE Filtered(Tail(handlers), callback)

\* Event.unbind: the event afterwards and the returned count
unbind(ev, callback) ==
    IF Truthy(ev._handlers)
    THEN LET handlers == Get(ev._handlers)
             filtered_callbacks == Filtered(handlers, callback)
             removed_count == Len(handlers) - Len(filtered_callbacks)
         IN  [ev |-> IF removed_count # 0
                     THEN [ev EXCEPT !._handlers = Some(filtered_callbacks)]
                     ELSE ev,
              count |-> removed_count]
    ELSE [ev |-> ev, count |-> 0]

\* the argument of a handler with the data tested before the error
HandlerArg_data(exc, data) ==
    IF ~IsNone(data) THEN <<"data", Get(data)>>
    ELSE IF ~IsNone(exc) THEN <<"exc", Get(exc)>>
    ELSE <<"none", "">>

\* the argument a handler is called with by Event.fire
HandlerArg(exc, data) ==
    IF ~IsNone(exc) THEN <<"exc", Get(exc)>>
    ELSE IF ~IsNone(data) THEN <<"data", Get(data)>>
    ELSE <<"none", "">>

\* the calls hnd(o, ...) made by the loops of Event.fire, in order
Invocations(handlers, o, exc, data) ==
    [i \in 1..Len(handlers) |->
        [hnd |-> handlers[i], o |-> o, arg |-> HandlerArg(exc, data)]]

\* the body of Event.fire under "if o is not None"
FireOwned(ev, futs, exc, data) ==
    LET o == ev._self
        handlers == ev._handlers
        ev1 == IF onetime(ev)
               THEN [ev EXCEPT !._handlers = None, !._self = NoOwner]
               ELSE ev
        invoked == IF Truthy(handlers)
                   THEN Invocations(Get(handlers), o, exc, data)
                   ELSE <<>>
    IN  IF ~IsNone(ev1._waiter)
        THEN [ev |-> [ev1 EXCEPT !._waiter = None],
              futs |-> [futs EXCEPT ![Get(ev1._waiter)] =
                           IF ~IsNone(exc)
                           THEN [state |-> "exception", value |-> Get(exc)]
                           ELSE [state |-> "result", value |-> o]],
              invoked |-> invoked,
              resolved |-> ev1._waiter]
        ELSE [ev |-> ev1, futs |-> futs, invoked |-> invoked,
              resolved |-> None]

\* Event.fire without its test of the owner
fire_unguarded(ev, futs, exc, data) == FireOwned(ev, futs, exc, data)

\* Event.fire: the event and the futures afterwards, the handler calls made
\* and the waiter resolved (None if none was)
fire(ev, futs, exc, data) ==
    IF ev._self # NoOwner
    THEN FireOwned(ev, futs, exc, data)
    ELSE [ev |-> ev, futs |-> futs, invoked |-> <<>>, resolved |-> None]

\* Event.waiter without the test of the waiter the event holds
waiter_fresh(ev, futs) ==
    LET f == Len(futs) + 1
    IN  [ev |-> [ev EXCEPT !._waiter = Some(f)],
         futs |-> Append(futs, [state |-> "pending", value |-> ""]),
         ret |-> f]

\* Event.waiter: the event and the futures afterwards and the future returned
waiter(ev, futs) ==
    IF IsNone(ev._waiter)
    THEN LET f == Len(futs) + 1
         IN  [ev |-> [ev EXCEPT !._waiter = Some(f)],
              futs |-> Append(futs, [state |-> "pending", value |-> ""]),
              ret |-> f]
    ELSE [ev |-> ev, futs |-> futs, ret |-> Get(ev._waiter)]

(***************************************************************************)
(* EventHandler: the registry _events is None or a dict, modelled as the   *)
(* sequence of its Events in insertion order (the order dict iteration     *)
(* follows).                                                               *)
(***************************************************************************)
\* position of the event called name in a dict, 0 when it has none
RECURSIVE IndexOf(_, _)
IndexOf(reg, name) ==
    IF reg = <<>> THEN 0
    ELSE IF reg[Len(reg)].name = name THEN Len(reg)
         ELSE IndexOf(SubSeq(reg, 1, Len(reg) - 1), name)

\* name in events
Has(regOpt, name) == ~IsNone(regOpt) /\ IndexOf(Get(regOpt), name) # 0

\* events[name], for a name the dict has
Lookup(regOpt, name) == Get(regOpt)[IndexOf(Get(regOpt), name)]

\* the dict with events[name] replaced
Store(regOpt, name, ev) ==
    Some([Get(regOpt) EXCEPT ![IndexOf(Get(regOpt), name)] = ev])

\* EventHandler.event: the registry afterwards (the event returned is
\* Lookup of it)
event(regOpt, o, name) ==
    LET ot == ONE_TIME_EVENTS[o]
        events0 == IF IsNone(regOpt)
                   THEN [i \in 1..Len(ot) |-> Event(ot[i], o, 1)]
                   ELSE Get(regOpt)
    IN  IF IndexOf(events0, name) = 0
        THEN Some(Append(events0, Event(name, o, 0)))
        ELSE Some(events0)

\* truth value of a Python dict-or-None
TruthyDict(regOpt) == ~IsNone(regOpt) /\ Len(Get(regOpt)) > 0

\* the loop "for callback in event._handlers: ev.bind(callback)": the
\* destination event afterwards, and whether a bind raised (which ends it)
RECURSIVE BindEach(_, _)
BindEach(ev, callbacks) ==
    IF callbacks = <<>> THEN [ev |-> ev, raised |-> FALSE]
    ELSE LET b == bind(ev, Head(callbacks))
         IN  IF b.raised THEN b ELSE BindEach(b.ev, Tail(callbacks))

\* a test of copy_many_times_events that forgets the kind of the event
Copied_any(event_o) == Truthy(event_o._handlers)

\* the test copy_many_times_events makes of an event of other
Copied(event_o) == ~onetime(event_o) /\ Truthy(event_o._handlers)

\* the loop of copy_many_times_events over other._events.items(), from its
\* i-th item on: the destination registry afterwards and whether it raised
RECURSIVE CopyFrom(_, _, _)
CopyFrom(regOpt, others, i) ==
    IF i > Len(others) THEN [reg |-> regOpt, raised |-> FALSE]
    ELSE LET ev_o == others[i]
             name == ev_o.name
         IN  IF Copied(ev_o) /\ Has(regOpt, name)
             THEN LET b == BindEach(Lookup(regOpt, name), Get(ev_o._handlers))
                  IN  IF b.raised
                      THEN [reg |-> Store(regOpt, name, b.ev), raised |-> TRUE]
                      ELSE CopyFrom(Store(regOpt, name, b.ev), others, i + 1)
             ELSE CopyFrom(regOpt, others, i + 1)

\* EventHandler.copy_many_times_events, for self and other distinct objects
copy_many_times_events(regOpt, otherOpt) ==
    IF TruthyDict(regOpt) /\ TruthyDict(otherOpt)
    THEN CopyFrom(regOpt, Get(otherOpt), 1)
    ELSE [reg |-> regOpt, raised |-> FALSE]

(***************************************************************************)
(* The calls a client of the event system can make.                        *)
(***************************************************************************)
OptExcs == {None} \cup {Some(e) : e \in Excs}
OptDatas == {None} \cup {Some(d) : d \in Datas}

Observed(op, o, name, raised, invoked, resolved) ==
    [op |-> op, owner |-> o, name |-> name, raised |-> raised,
     invoked |-> invoked, resolved |-> resolved]

\* longest handler list of a registry
RECURSIVE LongestList(_)
LongestList(regOpt) ==
    IF IsNone(regOpt) \/ Get(regOpt) = <<>> THEN 0
    ELSE LET reg == Get(regOpt)
             l == IF IsNone(reg[1]._handlers) THEN 0 ELSE Len(Get(reg[1]._handlers))
             r == LongestList(Some(Tail(reg)))
         IN  IF l > r THEN l ELSE r

\* one more call, within the bound on their number
Call ==
    /\ evCalls < MaxCalls
    /\ evCalls' = evCalls + 1
    /\ UNCHANGED <<fireVars, parserVars, testVars, concVars>>

\* o.event(name)
GetEvent(o, name) ==
    /\ Call
    /\ events' = [events EXCEPT ![o] = event(events[o], o, name)]
    /\ evLast' = Observed("event", o, name, FALSE, <<>>, None)
    /\ UNCHANGED futures

\* o.event(name).bind(callback), on an event o has
Bind(o, name, callback) ==
    /\ Call
    /\ Has(events[o], name)
    /\ LET b == bind(Lookup(events[o], name), callback)
       IN  /\ LongestList(Store(events[o], name, b.ev)) <= MaxHandlers
           /\ events' = [events EXCEPT ![o] = Store(events[o], name, b.ev)]
           /\ evLast' = Observed("bind", o, name, b.raised, <<>>, None)
    /\ UNCHANGED futures

\* o.event(name).unbind(callback)
Unbind(o, name, callback) ==
    /\ Call
    /\ Has(events[o], name)
    /\ LET u == unbind(Lookup(events[o], name), callback)
       IN  /\ events' = [events EXCEPT ![o] = Store(events[o], name, u.ev)]
           /\ evLast' = Observed("unbind", o, name, FALSE, <<>>, None)
    /\ UNCHANGED futures

\* o.event(name).clear()
Clear(o, name) ==
    /\ Call
    /\ Has(events[o], name)
    /\ events' = [events EXCEPT ![o] =
                    Store(events[o], name, clear(Lookup(events[o], name)))]
    /\ evLast' = Observed("clear", o, name, FALSE, <<>>, None)
    /\ UNCHANGED futures

\* o.event(name).fire(exc, data)
Fire(o, name, exc, data) ==
    /\ Call
    /\ Has(events[o], name)
    /\ LET f == fire(Lookup(events[o], name), futures, exc, data)
       IN  /\ events' = [events EXCEPT ![o] = Store(events[o], name, f.ev)]
           /\ futures' = f.futs
           /\ evLast' = Observed("fire", o, name, FALSE, f.invoked, f.resolved)

\* EventHandler.fire_event
FireEvent(o, name, exc, data) ==
    /\ Call
    /\ IF TruthyDict(events[o]) /\ Has(events[o], name)
       THEN LET f == fire(Lookup(events[o], name), futures, exc, data)
            IN  /\ events' = [events EXCEPT ![o] = Store(events[o], name, f.ev)]
                /\ futures' = f.futs
                /\ evLast' = Observed("fire_event", o, name, FALSE,
                                      f.invoked, f.resolved)
       ELSE /\ evLast' = Observed("fire_event", o, name, FALSE, <<>>, None)
            /\ UNCHANGED <<events, futures>>

\* o.event(name).waiter()
Waiter(o, name) ==
    /\ Call
    /\ Has(events[o], name)
    /\ LET w == waiter(Lookup(events[o], name), futures)
       IN  /\ Len(w.futs) <= MaxFutures
           /\ events' = [events EXCEPT ![o] = Store(events[o], name, w.ev)]
           /\ futures' = w.futs
           /\ evLast' = Observed("waiter", o, name, FALSE, <<>>, Some(w.ret))

\* dst.copy_many_times_events(src)
CopyManyTimesEvents(dst, src) ==
    /\ Call
    /\ dst # src
    /\ LET c == copy_many_times_events(events[dst], events[src])
       IN  /\ LongestList(c.reg) <= MaxHandlers
           /\ events' = [events EXCEPT ![dst] = c.reg]
           /\ evLast' = Observed("copy", dst, src, c.raised, <<>>, None)
    /\ UNCHANGED futures

(***************************************************************************)
(* Event.fire with handlers that call bind and unbind of the event they    *)
(* are called for.  fire() keeps a reference to the list _handlers, not a  *)
(* copy, so the lists are objects with an identity: bind appends to the    *)
(* list the event holds, unbind gives the event a new list.                *)
(***************************************************************************)
\* bound of the model: handler calls made by one fire()
MaxInvoked == 4

\* what a handler does: nothing more, or a bind or an unbind of a handler
Behaviours ==
    {<<"pass", "">>}
    \cup {<<"bind", h>> : h \in Handlers}
    \cup {<<"unbind", h>> : h \in Handlers}

\* the event with its handler list read from the heap
Deref(ev, hp) ==
    [ev EXCEPT !._handlers = IF IsNone(@) THEN None ELSE Some(hp[Get(@)])]

\* Event.bind on lists with identity: "handlers = []" makes a new list
\* and "handlers.append(callback)" changes the list the event holds
BindList(ev, hp, callback) ==
    LET b == bind(Deref(ev, hp), callback) IN
    IF b.raised THEN [ev |-> ev, heap |-> hp, raised |-> TRUE]
    ELSE IF IsNone(ev._handlers)
    THEN [ev |-> [ev EXCEPT !._handlers = Some(Len(hp) + 1)],
          heap |-> Append(hp, Get(b.ev._handlers)), raised |-> FALSE]
    ELSE [ev |-> ev,
          heap |-> [hp EXCEPT ![Get(ev._handlers)] = Get(b.ev._handlers)],
          raised |-> FALSE]

\* Event.unbind on lists with identity: "self._handlers =
\* filtered_callbacks" gives the event a new list
UnbindList(ev, hp, callback) ==
    LET u == unbind(Deref(ev, hp), callback) IN
    IF u.count # 0
    THEN [ev |-> [ev EXCEPT !._handlers = Some(Len(hp) + 1)],
          heap |-> Append(hp, Get(u.ev._handlers)), raised |-> FALSE]
    ELSE [ev |-> ev, heap |-> hp, raised |-> FALSE]

\* the call hnd(o): what the handler does to the event
HandlerCall(ev, hp, hnd) ==
    IF does[hnd][1] = "bind" THEN BindList(ev, hp, does[hnd][2])
    ELSE IF does[hnd][1] = "unbind" THEN UnbindList(ev, hp, does[hnd][2])
    ELSE [ev |-> ev, heap |-> hp, raised |-> FALSE]

FireStep == UNCHANGED <<does, events, futures, evLast, evCalls,
                        parserVars, testVars, concVars>>

\* Event.fire up to its loop over the handlers
FireBegin ==
    /\ fpc = "start"
    /\ FireStep
    /\ UNCHANGED <<heap, finvoked>>
    /\ IF fev._self = NoOwner
       THEN /\ fpc' = "done"
            /\ UNCHANGED <<fev, flist, fidx, fbound>>
       ELSE LET handlers == fev._handlers IN
            /\ fev' = IF onetime(fev)
                      THEN [fev EXCEPT !._handlers = None, !._self = NoOwner]
                      ELSE fev
            /\ fbound' = IF IsNone(handlers) THEN <<>>
                         ELSE heap[Get(handlers)]
            /\ IF Truthy(Deref(fev, heap)._handlers)
               THEN /\ fpc' = "loop"
                    /\ flist' = Get(handlers)
                    /\ fidx' = 1
               ELSE /\ fpc' = "done"
                    /\ UNCHANGED <<flist, fidx>>

\* one turn of "for hnd in handlers: hnd(o)": the loop reads the list at
\* its index, calls the handler, and ends when the index is past the end
\* of the list as it is then; an error of the handler leaves fire()
Invoke ==
    /\ fpc = "loop"
    /\ Len(finvoked) < MaxInvoked
    /\ FireStep
    /\ UNCHANGED <<flist, fbound>>
    /\ LET hnd == heap[flist][fidx]
           r == HandlerCall(fev, heap, hnd)
       IN  /\ finvoked' = Append(finvoked, hnd)
           /\ fev' = r.ev
           /\ heap' = r.heap
           /\ fidx' = fidx + 1
           /\ fpc' = IF r.raised THEN "raised"
                     ELSE IF fidx + 1 > Len(r.heap[flist]) THEN "done"
                     ELSE "loop"

\* no fire() of a handler-driven event is in progress
FireIdle ==
    /\ fev = Event("ready", "A", 0)
    /\ heap = <<>>
    /\ does = [h \in Handlers |-> <<"pass", "">>]
    /\ fpc = "idle"
    /\ flist = 0
    /\ fidx = 0
    /\ finvoked = <<>>
    /\ fbound = <<>>

\* the event system of a model that makes no call on it
EvIdle ==
    /\ events = [o \in Owners |-> None]
    /\ futures = <<>>
    /\ evLast = Observed("init", NoOwner, "", FALSE, <<>>, None)
    /\ evCalls = 0
    /\ FireIdle

EvInit ==
    /\ events = [o \in Owners |-> None]
    /\ futures = <<>>
    /\ evLast = Observed("init", NoOwner, "", FALSE, <<>>, None)
    /\ evCalls = 0
    /\ FireIdle
    /\ ParserIdle
    /\ TestIdle
    /\ ConcIdle

TestInit ==
    /\ tcase \in TestCases
    /\ tpc = "start"
    /\ success = TRUE
    /\ hooks = <<>>
    /\ delivered = <<>>
    /\ stored = None
    /\ runner = NoRecords
    /\ RunIdle
    /\ EvIdle
    /\ ParserIdle
    /\ ConcIdle

NextEvents ==
    \/ \E o \in Owners, name \in Names : GetEvent(o, name)
    \/ \E o \in Owners, name \in Names, h \in Handlers : Bind(o, name, h)
    \/ \E o \in Owners, name \in Names, h \in Handlers : Unbind(o, name, h)
    \/ \E o \in Owners, name \in Names : Clear(o, name)
    \/ \E o \in Owners, name \in Names, exc \in OptExcs, data \in OptDatas :
            Fire(o, name, exc, data)
    \/ \E o \in Owners, name \in Names, exc \in OptExcs, data \in OptDatas :
            FireEvent(o, name, exc, data)
    \/ \E o \in Owners, name \in Names : Waiter(o, name)
    \/ \E dst \in Owners, src \in Owners : CopyManyTimesEvents(dst, src)

SpecEvents == EvInit /\ [][NextEvents]_vars

\* an event of owner A, one-time or not, to which handlers were bound, about
\* to be fired
FireInit ==
    /\ \E ot \in {0, 1}, bound \in SeqsUpTo(Handlers, MaxHandlers) :
            IF bound = <<>>
            THEN fev = Event("ready", "A", ot) /\ heap = <<>>
            ELSE /\ fev = [Event("ready", "A", ot) EXCEPT !._handlers = Some(1)]
                 /\ heap = <<bound>>
    /\ does \in [Handlers -> Behaviours]
    /\ fpc = "start"
    /\ flist = 0
    /\ fidx = 0
    /\ finvoked = <<>>
    /\ fbound = <<>>
    /\ events = [o \in Owners |-> None]
    /\ futures = <<>>
    /\ evLast = Observed("init", NoOwner, "", FALSE, <<>>, None)
    /\ evCalls = 0
    /\ ParserIdle
    /\ TestIdle
    /\ ConcIdle

NextFire ==
    \/ FireBegin
    \/ Invoke

SpecFire == FireInit /\ [][NextFire]_vars

SpecTest == TestInit /\ [][NextTest]_vars

(***************************************************************************)
(* TestRequest.run, a generator too: it yields the outcome of each class   *)
(* hook, the generator run_test of each test case, and the send of the     *)
(* result.  While run_test of a test case runs, run is suspended.          *)
(***************************************************************************)
\* bound of the model: test cases loaded from one class
MaxTests == 2

\* the results a step is resumed with in the runs of a whole class
RunResults == {<<>>, <<"error">>}

\* the test classes: the skip mark of the class, whether it defines
\* setUpClass and tearDownClass, the skip mark of the method of each test
\* case loaded, and the functions marked run_on_arbiter
Classes ==
    [skip : BOOLEAN, setUpClass : BOOLEAN, tearDownClass : BOOLEAN,
     tests : SeqsUpTo(BOOLEAN, MaxTests),
     on_arbiter : {{}, {"setUpClass", "testMethod"}}]

\* the i-th test case loaded by runner.loadTestsFromTestCase(testcls)
TestOf(i) ==
    [cls_skip |-> rcls.skip,
     cls_why |-> IF rcls.skip THEN "class off" ELSE "",
     method_skip |-> rcls.tests[i],
     method_why |-> IF rcls.tests[i] THEN "not ready" ELSE "",
     _pre_setup |-> FALSE, _post_teardown |-> FALSE]

\* getattr(testcls, name, None)
ClassFunc(name) == IF rcls[name] THEN Some(Func(name)) ELSE None

\* run without the send of the result
Send_silent(log, records) ==
    /\ rpc' = "test_result"
    /\ rlog' = log
    /\ sent' = sent
    /\ runner' = records
    /\ UNCHANGED <<rnext, tcase, tpc, success, hooks, delivered, stored,
                   mailbox, tworker>>

\* run at "yield worker.send(worker.monitor, 'test_result', runner.result)"
Send(log, records) ==
    /\ rpc' = "test_result"
    /\ rlog' = Append(log, "test_result")
    /\ sent' = Append(sent, records)
    /\ runner' = records
    /\ UNCHANGED <<rnext, tcase, tpc, success, hooks, delivered, stored,
                   mailbox, tworker>>

\* run from the second "if not skip_tests" on, without the class hook
TearDownClass_never(log, records) == Send(log, records)

\* run from the second "if not skip_tests" on: tearDownClass is called if
\* the class is not skipped and defines it
TearDownClass(log, records) ==
    LET r == run_test_function(tworker, mailbox, ClassFunc("tearDownClass"))
    IN  IF ~rcls.skip /\ ~IsNone(r.outcome)
        THEN /\ rpc' = "tearDownClass"
             /\ rlog' = Append(log, "tearDownClass")
             /\ tworker' = r.worker
             /\ mailbox' = r.box
             /\ runner' = records
             /\ UNCHANGED <<sent, rnext, tcase, tpc, success, hooks,
                            delivered, stored>>
        ELSE Send(log, records)

\* the loop "for test in all_tests" at its i-th test case: startTest and the
\* yield of run_test(test, runner), or the end of the loop
ForTest(i, log, records) ==
    IF i <= Len(rcls.tests)
    THEN /\ rpc' = "run_test"
         /\ rnext' = i
         /\ rlog' = Append(log, "startTest")
         /\ tcase' = TestOf(i)
         /\ tpc' = "start"
         /\ success' = TRUE
         /\ hooks' = <<>>
         /\ delivered' = <<>>
         /\ stored' = None
         /\ runner' = records
         /\ UNCHANGED <<sent, mailbox, tworker>>
    ELSE TearDownClass(log, records)

RunStep == UNCHANGED <<rcls, evVars, parserVars, concVars>>

\* run up to its first yield: the runner is reset and the test cases loaded
Run ==
    /\ rpc = "start"
    /\ RunStep
    /\ UNCHANGED <<should_stop, cdelivered>>
    /\ IF Len(rcls.tests) = 0
       THEN Send(rlog, NoRecords)
       ELSE LET r == run_test_function(tworker, mailbox,
                                       ClassFunc("setUpClass"))
            IN  IF ~rcls.skip /\ ~IsNone(r.outcome)
                THEN /\ rpc' = "setUpClass"
                     /\ rlog' = Append(rlog, "setUpClass")
                     /\ tworker' = r.worker
                     /\ mailbox' = r.box
                     /\ runner' = NoRecords
                     /\ UNCHANGED <<sent, rnext, tcase, tpc, success, hooks,
                                    delivered, stored>>
                ELSE ForTest(1, rlog, NoRecords)

\* run resumed with the result of setUpClass
AfterSetUpClass(result) ==
    /\ rpc = "setUpClass"
    /\ RunStep
    /\ cdelivered' = Append(cdelivered, result)
    /\ LET a == add_failure(runner, result)
       IN  /\ should_stop' = a.ret
           /\ IF ~a.ret THEN ForTest(1, rlog, a.runner)
              ELSE TearDownClass(rlog, a.runner)

\* run resumed when run_test of the current test case has ended
AfterRunTest ==
    /\ rpc = "run_test"
    /\ tpc = "done"
    /\ RunStep
    /\ UNCHANGED <<should_stop, cdelivered>>
    /\ ForTest(rnext + 1, Append(rlog, "stopTest"), runner)

\* run resumed with the result of tearDownClass
AfterTearDownClass(result) ==
    /\ rpc = "tearDownClass"
    /\ RunStep
    /\ cdelivered' = Append(cdelivered, result)
    /\ UNCHANGED should_stop
    /\ Send(rlog, add_failure(runner, result).runner)

\* run resumed after the send: the generator ends
AfterSend ==
    /\ rpc = "test_result"
    /\ RunStep
    /\ rpc' = "done"
    /\ UNCHANGED <<rnext, should_stop, rlog, cdelivered, sent, tcase, tpc,
                   success, hooks, delivered, stored, runner, mailbox,
                   tworker>>

\* a TestRequest about to run, on a worker whose runner holds the records
\* of an earlier class or none
RunInit ==
    /\ rcls \in Classes
    /\ rpc = "start"
    /\ rnext = 0
    /\ should_stop = FALSE
    /\ rlog = <<>>
    /\ cdelivered = <<>>
    /\ sent = <<>>
    /\ mailbox = <<>>
    /\ tworker = "worker"
    /\ tcase = [cls_skip |-> FALSE, cls_why |-> "", method_skip |-> FALSE,
                method_why |-> "", _pre_setup |-> FALSE,
                _post_teardown |-> FALSE]
    /\ tpc = "none"
    /\ success = TRUE
    /\ hooks = <<>>
    /\ delivered = <<>>
    /\ stored = None
    /\ runner \in {NoRecords, [NoRecords EXCEPT !.errors = 1]}
    /\ EvIdle
    /\ ParserIdle
    /\ ConcIdle

NextRun ==
    \/ Run
    \/ \E result \in RunResults : AfterSetUpClass(result)
    \/ StartTest
    \/ \E result \in RunResults : AfterSetUp(result)
    \/ \E result \in RunResults : AfterTest(result)
    \/ \E result \in RunResults : AfterTearDown(result)
    \/ AfterRunTest
    \/ \E result \in RunResults : AfterTearDownClass(result)
    \/ AfterSend

SpecRun == RunInit /\ [][NextRun]_vars

(***************************************************************************)
(* The inputs of the parser: whole messages, which the connection passes   *)
(* to feed_data in pieces of any size.                                     *)
(***************************************************************************)
\* GET /x HTTP/1.1\r\nHost: a\r\nContent-Length: 5\r\n\r\nhello
ReqLength ==
    <<"G", "E", "T", " ", "/", "x", " ", "H", "T", "T", "P", "/", "1", ".",
      "1", "\r", "\n", "H", "o", "s", "t", ":", " ", "a", "\r", "\n", "C",
      "o", "n", "t", "e", "n", "t", "-", "L", "e", "n", "g", "t", "h", ":",
      " ", "5", "\r", "\n", "\r", "\n", "h", "e", "l", "l", "o">>

\* PUT /x HTTP/1.1\r\nTransfer-Encoding: chunked\r\n\r\n5\r\nhello\r\n0\r\n\r\n
ReqChunked ==
    <<"P", "U", "T", " ", "/", "x", " ", "H", "T", "T", "P", "/", "1", ".",
      "1", "\r", "\n", "T", "r", "a", "n", "s", "f", "e", "r", "-", "E", "n",
      "c", "o", "d", "i", "n", "g", ":", " ", "c", "h", "u", "n", "k", "e",
      "d", "\r", "\n", "\r", "\n", "5", "\r", "\n", "h", "e", "l", "l", "o",
      "\r", "\n", "0", "\r", "\n", "\r", "\n">>

\* get /x HTTP/1.1\r\n\r\n
ReqBadMethod ==
    <<"g", "e", "t", " ", "/", "x", " ", "H", "T", "T", "P", "/", "1", ".",
      "1", "\r", "\n", "\r", "\n">>

\* GET /x HTP/1.1\r\n\r\n
ReqBadVersion ==
    <<"G", "E", "T", " ", "/", "x", " ", "H", "T", "P", "/", "1", ".", "1",
      "\r", "\n", "\r", "\n">>

\* GET /x HTTP/1.1\r\nContent-Length: 5\r\nContent-Length: x\r\n\r\nhello
ReqLengthThenText ==
    <<"G", "E", "T", " ", "/", "x", " ", "H", "T", "T", "P", "/", "1", ".",
      "1", "\r", "\n", "C", "o", "n", "t", "e", "n", "t", "-", "L", "e", "n",
      "g", "t", "h", ":", " ", "5", "\r", "\n", "C", "o", "n", "t", "e", "n",
      "t", "-", "L", "e", "n", "g", "t", "h", ":", " ", "x", "\r", "\n",
      "\r", "\n", "h", "e", "l", "l", "o">>

\* GET /x HTTP/1.1\r\nContent-Length: 5\r\nContent-Length: -1\r\n\r\n
ReqLengthThenNegative ==
    <<"G", "E", "T", " ", "/", "x", " ", "H", "T", "T", "P", "/", "1", ".",
      "1", "\r", "\n", "C", "o", "n", "t", "e", "n", "t", "-", "L", "e", "n",
      "g", "t", "h", ":", " ", "5", "\r", "\n", "C", "o", "n", "t", "e", "n",
      "t", "-", "L", "e", "n", "g", "t", "h", ":", " ", "-", "1", "\r", "\n",
      "\r", "\n">>

\* HTTP/1.1 XYZ\r\n\r\n
RespBadStatus ==
    <<"H", "T", "T", "P", "/", "1", ".", "1", " ", "X", "Y", "Z", "\r", "\n",
      "\r", "\n">>

\* HTTP/1.0 200 OK\r\n\r\n
Resp10 ==
    <<"H", "T", "T", "P", "/", "1", ".", "0", " ", "2", "0", "0", " ", "O",
      "K", "\r", "\n", "\r", "\n">>

\* HTTP/1.0 200 OK\r\nContent-Length: 2\r\n\r\nhi
Resp10Length ==
    <<"H", "T", "T", "P", "/", "1", ".", "0", " ", "2", "0", "0", " ", "O",
      "K", "\r", "\n", "C", "o", "n", "t", "e", "n", "t", "-", "L", "e", "n",
      "g", "t", "h", ":", " ", "2", "\r", "\n", "\r", "\n", "h", "i">>

\* HTTP/1.0 200 OK\r\nConnection: Keep-Alive\r\nContent-Length: 2\r\n\r\nhi
Resp10KeepAlive ==
    <<"H", "T", "T", "P", "/", "1", ".", "0", " ", "2", "0", "0", " ", "O",
      "K", "\r", "\n", "C", "o", "n", "n", "e", "c", "t", "i", "o", "n", ":",
      " ", "K", "e", "e", "p", "-", "A", "l", "i", "v", "e", "\r", "\n", "C",
      "o", "n", "t", "e", "n", "t", "-", "L", "e", "n", "g", "t", "h", ":",
      " ", "2", "\r", "\n", "\r", "\n", "h", "i">>

\* HTTP/1.1 200 OK\r\nContent-Length: 2\r\n\r\nhi
Resp11Length ==
    <<"H", "T", "T", "P", "/", "1", ".", "1", " ", "2", "0", "0", " ", "O",
      "K", "\r", "\n", "C", "o", "n", "t", "e", "n", "t", "-", "L", "e", "n",
      "g", "t", "h", ":", " ", "2", "\r", "\n", "\r", "\n", "h", "i">>

\* HTTP/1.1 200 OK\r\nConnection: close\r\nContent-Length: 2\r\n\r\nhi
Resp11Close ==
    <<"H", "T", "T", "P", "/", "1", ".", "1", " ", "2", "0", "0", " ", "O",
      "K", "\r", "\n", "C", "o", "n", "n", "e", "c", "t", "i", "o", "n", ":",
      " ", "c", "l", "o", "s", "e", "\r", "\n", "C", "o", "n", "t", "e", "n",
      "t", "-", "L", "e", "n", "g", "t", "h", ":", " ", "2", "\r", "\n",
      "\r", "\n", "h", "i">>

\* HTTP/1.1 204 No\r\nX\r\n\r\n
Resp11NoContent ==
    <<"H", "T", "T", "P", "/", "1", ".", "1", " ", "2", "0", "4", " ", "N",
      "o", "\r", "\n", "X", "\r", "\n", "\r", "\n">>

\* HTTP/1.1 200 OK\r\nTransfer-Encoding: Chunked\r\n\r\n2\r\nhi\r\n0\r\n\r\n
Resp11Chunked ==
    <<"H", "T", "T", "P", "/", "1", ".", "1", " ", "2", "0", "0", " ", "O",
      "K", "\r", "\n", "T", "r", "a", "n", "s", "f", "e", "r", "-", "E", "n",
      "c", "o", "d", "i", "n", "g", ":", " ", "C", "h", "u", "n", "k", "e",
      "d", "\r", "\n", "\r", "\n", "2", "\r", "\n", "h", "i", "\r", "\n",
      "0", "\r", "\n", "\r", "\n">>

Messages ==
    {ReqLength,
     ReqChunked,
     ReqBadMethod,
     ReqBadVersion,
     ReqLengthThenText,
     ReqLengthThenNegative,
     RespBadStatus,
     Resp10,
     Resp10Length,
     Resp10KeepAlive,
     Resp11Length,
     Resp11Close,
     Resp11NoContent,
     Resp11Chunked}

ParserTypes == {"HTTP_REQUEST", "HTTP_RESPONSE"}

\* one call of feed_data ended: returned, raised the error named, or "hang"
Ended(r) == IF r.raised = "" THEN "return" ELSE r.raised

\* the caller is back from the last feed_data and makes another call
Feeding ==
    /\ pLast # "hang"
    /\ UNCHANGED <<input, evVars, testVars, concVars>>

\* parser.feed_data(data) with the next n bytes of the input
FeedData(n) ==
    /\ Feeding
    /\ n \in 1..Len(pending)
    /\ LET r == feed_data(parser, UpTo(pending, n))
       IN  /\ parser' = r.p
           /\ pLast' = Ended(r)
    /\ pending' = From(pending, n)
    /\ UNCHANGED fedEmpty

\* parser.feed_data(b''), the end of the input signalled by hand
FeedEmpty ==
    /\ Feeding
    /\ LET r == feed_data(parser, <<>>)
       IN  /\ parser' = r.p
           /\ pLast' = Ended(r)
    /\ fedEmpty' = TRUE
    /\ UNCHANGED pending

ParserInit ==
    /\ parser \in {HttpParser(type) : type \in ParserTypes}
    /\ input \in Messages
    /\ pending = input
    /\ fedEmpty = FALSE
    /\ pLast = ""
    /\ EvIdle
    /\ TestIdle
    /\ ConcIdle

NextParser ==
    \/ \E n \in 1..Len(pending) : FeedData(n)
    \/ FeedEmpty

SpecParser == ParserInit /\ [][NextParser]_vars

ConcInit ==
    /\ ConcIdle
    /\ EvIdle
    /\ ParserIdle
    /\ TestIdle

NextConcurrency ==
    \/ \E kind \in Kinds, timeout \in 0..MaxTimeout, monitor \in Monitors,
          aid \in Aids, kwargs \in KwargSets, uid \in UniqueIds :
            Create(kind, timeout, monitor, aid, kwargs, uid)
    \/ Start
    \/ ProxyMonitor
    \/ \E alive \in BOOLEAN : IsActive(alive)
    \/ \E called \in BOOLEAN : Terminate(called)
    \/ Deliver
    \/ Poll

SpecConcurrency == ConcInit /\ [][NextConcurrency]_vars

\* the same with the scheduling of the two threads: the caller of
\* terminate() goes on polling and the actor's thread delivers the result
SpecConcurrencyFair ==
    SpecConcurrency /\ WF_vars(Poll) /\ WF_vars(Deliver)

(***************************************************************************)
(* Properties of the descriptors.                                          *)
(***************************************************************************)
\* a descriptor was created with kind monitor
MonitorCreated == ~IsNone(cRequest) /\ Get(cRequest).kind = "monitor"

\* C10: a descriptor created with kind monitor has timeout 0 from its
\* creation on, whatever timeout was requested, and its actor instance
\* exists; proxy_monitor() returns None and start() changes nothing of it.
C10_Monitor ==
    [][MonitorCreated' =>
        /\ ~IsNone(desc')
        /\ Get(desc').timeout = 0
        /\ ~IsNone(Get(desc').actor)
        /\ cLast'.op = "proxy_monitor" => cLast'.ret = "None"
        /\ cLast'.op = "start" => (desc' = desc /\ cLast'.ret = "None")
      ]_vars

\* C10 witness: start() was called on a monitor descriptor that was created
\* with a timeout other than 0
C10_Witness ==
    /\ MonitorCreated
    /\ Get(cRequest).timeout > 0
    /\ cLast.op = "start"
    /\ Get(desc).timeout = 0

\* C15: terminate() of a thread-hosted actor does not return while the
\* result of the stop it requested is undelivered.
C15_Terminate ==
    term = "returned" => stopResult = "called"

\* the rest of C15: once the result of the stop is delivered, terminate()
\* is not left polling, it has returned
C15_Returns ==
    (term = "polling" /\ stopResult = "called") ~> (term = "returned")

\* the arguments of a descriptor created for a thread or a process hold the
\* proxy of the arbiter and the proxy of the owning monitor
ProxiesInjected(kw, monitor) ==
    /\ {"arbiter", "monitor"} \subseteq DOMAIN kw
    /\ kw["arbiter"] = (IF monitor = "arbiter" THEN "arbiter.proxy"
                        ELSE proxy(arbiter_of(monitor)))
    /\ kw["monitor"] = proxy(monitor)

\* C16 as stated: after create(), for every kind, the constructor arguments
\* hold a proxy of the arbiter and a proxy of the owning monitor and no
\* loglevel.
C16_AsStated ==
    ~IsNone(desc) =>
        /\ ProxiesInjected(Get(desc).a_kwargs, Get(cRequest).monitor)
        /\ "loglevel" \notin DOMAIN Get(desc).a_kwargs

\* C16: after create() with kind thread or process the constructor
\* arguments hold a proxy of the arbiter (of the owning monitor itself when
\* it is the root, else of the monitor's arbiter) and a proxy of the owning
\* monitor; with kind monitor they hold under arbiter the object passed as
\* the owning monitor and no monitor entry is added; for every kind they do
\* not hold loglevel, and no later operation of the descriptor changes them.
C16_Proxies ==
    [][~IsNone(desc') =>
        LET kw == Get(desc').a_kwargs
            req == Get(cRequest')
        IN  /\ req.kind \in {"thread", "process"} =>
                 ProxiesInjected(kw, req.monitor)
            /\ req.kind = "monitor" =>
                 /\ "arbiter" \in DOMAIN kw
                 /\ kw["arbiter"] = req.monitor
                 /\ "monitor" \notin DOMAIN kw
            /\ "loglevel" \notin DOMAIN kw
            /\ DOMAIN kw \ {"arbiter", "monitor"} =
                 DOMAIN req.kwargs \ {"loglevel"}
            /\ ~IsNone(desc) => kw = Get(desc).a_kwargs
      ]_vars

\* a thread descriptor created under a monitor that is not the root, with a
\* loglevel among its arguments, was started
C16_Witness ==
    /\ ~IsNone(desc)
    /\ Get(cRequest).kind = "thread"
    /\ Get(cRequest).monitor = "monitor1"
    /\ "loglevel" \in DOMAIN Get(cRequest).kwargs
    /\ Get(desc).started
    /\ Get(desc).a_kwargs["arbiter"] = "arbiter.proxy"
    /\ Get(desc).a_kwargs["monitor"] = "monitor1.proxy"

(***************************************************************************)
(* Properties of the event system.                                         *)
(***************************************************************************)
\* the handlers called, in order, by the last call
InvokedHandlers(obs) == [i \in 1..Len(obs.invoked) |-> obs.invoked[i].hnd]

\* the last call was op on the event name of owner o
LastOn(obs, ops, o, name) ==
    obs.op \in ops /\ obs.owner = o /\ obs.name = name

\* C1: on a one-time event the first fire() calls the bound handlers, in
\* order, and resolves the pending waiter; a fire() on the event once it has
\* fired calls no handler and resolves no waiter, and a bind() on it then
\* raises RuntimeError and adds no handler.
C1_OneTimeEvent ==
    [][\A o \in Owners, name \in Names :
        (Has(events[o], name) /\ onetime(Lookup(events[o], name))) =>
            LET ev == Lookup(events[o], name)
                ev2 == Lookup(events'[o], name)
            IN  /\ (LastOn(evLast', {"fire", "fire_event"}, o, name) /\ ~fired(ev)) =>
                    (/\ fired(ev2)
                     /\ InvokedHandlers(evLast') =
                          (IF IsNone(ev._handlers) THEN <<>> ELSE Get(ev._handlers))
                     /\ (~IsNone(ev._waiter) =>
                          (/\ evLast'.resolved = ev._waiter
                           /\ futures[Get(ev._waiter)].state = "pending"
                           /\ futures'[Get(ev._waiter)].state # "pending")))
                /\ (LastOn(evLast', {"fire", "fire_event"}, o, name) /\ fired(ev)) =>
                    (/\ evLast'.invoked = <<>>
                     /\ evLast'.resolved = None
                     /\ futures' = futures
                     /\ ev2 = ev)
                /\ (LastOn(evLast', {"bind"}, o, name) /\ fired(ev)) =>
                    (/\ evLast'.raised
                     /\ ev2 = ev)
      ]_vars

\* C1 witness: a one-time event whose first fire resolved a waiter was fired
\* again while a new waiter was pending
C1_Witness ==
    \E o \in Owners, name \in Names :
        /\ Has(events[o], name)
        /\ onetime(Lookup(events[o], name))
        /\ fired(Lookup(events[o], name))
        /\ LastOn(evLast, {"fire"}, o, name)
        /\ ~IsNone(Lookup(events[o], name)._waiter)
        /\ \E f \in 1..Len(futures) : futures[f].state = "result"

\* the handler list of an event, [] for None
ListOf(ev) == IF IsNone(ev._handlers) THEN <<>> ELSE Get(ev._handlers)

\* the names registered by an owner
Registered(regOpt) == {name \in Names : Has(regOpt, name)}

\* src has a repeatable event name with a handler, and dst has registered name
CopyApplies(dst, src, name) ==
    /\ Has(events[src], name)
    /\ ~onetime(Lookup(events[src], name))
    /\ Len(ListOf(Lookup(events[src], name))) > 0
    /\ Has(events[dst], name)

\* the event name of dst after a copy of the handlers of src, or unchanged
AfterCopy(dst, src, name) ==
    IF CopyApplies(dst, src, name)
    THEN [Lookup(events[dst], name) EXCEPT !._handlers =
            Some(ListOf(Lookup(events[dst], name))
                 \o ListOf(Lookup(events[src], name)))]
    ELSE Lookup(events[dst], name)

CopyBlocked(dst, src) ==
    \E name \in Names :
        CopyApplies(dst, src, name) /\ fired(Lookup(events[dst], name))

BodyOf(msg) ==
    LET ends == {i \in 1..(Len(msg) - 3) :
                    SubSeq(msg, i, i + 3) = CRLF \o CRLF}
    IN  From(msg, (CHOOSE i \in ends : \A j \in ends : i <= j) + 3)

\* the bytes the body callbacks delivered, in order
RECURSIVE BodyDelivered(_)
BodyDelivered(calls) ==
    IF calls = <<>> THEN <<>>
    ELSE IF Head(calls).cb = "on_body"
         THEN Head(calls).args[1] \o BodyDelivered(Tail(calls))
         ELSE BodyDelivered(Tail(calls))

HasCalled(calls, cb) == \E i \in 1..Len(calls) : calls[i].cb = cb
TimesCalled(calls, cb) == Cardinality({i \in 1..Len(calls) : calls[i].cb = cb})

\* start-line and header callbacks, headers-complete, body callbacks,
\* message-complete, in this order
InMessageOrder(calls) ==
    /\ calls # <<>>
    /\ calls[Len(calls)].cb = "on_message_complete"
    /\ \E k \in 1..(Len(calls) - 1) :
         /\ calls[k].cb = "on_headers_complete"
         /\ \A i \in 1..(k - 1) :
              calls[i].cb \in {"on_url", "on_status", "on_header"}
         /\ \A i \in (k + 1)..(Len(calls) - 1) : calls[i].cb = "on_body"

\* the complete requests that declare a Content-Length n > 0 and carry n bytes
LengthRequests == {ReqLength}

\* C2: a request parser fed such a request, in one piece or several, makes
\* the header callbacks, headers-complete, body callbacks that deliver
\* exactly the n body bytes, then message-complete, and message-complete is
\* not made before the n-th body byte was delivered.
C2_LengthBody ==
    (parser.type = "HTTP_REQUEST" /\ input \in LengthRequests /\ ~fedEmpty) =>
        /\ pLast \in {"", "return"}
        /\ HasCalled(parser.calls, "on_message_complete") =>
             BodyDelivered(parser.calls) = BodyOf(input)
        /\ pending = <<>> =>
             /\ InMessageOrder(parser.calls)
             /\ BodyDelivered(parser.calls) = BodyOf(input)

\* the chunked messages, each with the parser that reads it, and the bytes of
\* their chunks
ChunkedMessages ==
    {<<"HTTP_REQUEST", ReqChunked>>, <<"HTTP_RESPONSE", Resp11Chunked>>}
ChunksOf(msg) ==
    IF msg = ReqChunked THEN <<<<"h", "e", "l", "l", "o">>>>
    ELSE <<<<"h", "i">>>>

\* the arguments of the body callbacks, in order
RECURSIVE BodyCalls(_)
BodyCalls(calls) ==
    IF calls = <<>> THEN <<>>
    ELSE IF Head(calls).cb = "on_body"
         THEN <<Head(calls).args[1]>> \o BodyCalls(Tail(calls))
         ELSE BodyCalls(Tail(calls))

\* C3: a parser fed a chunked message delivers the bytes of each chunk by one
\* body callback, in order, and then makes message-complete; while a chunk is
\* not fully buffered no call of feed_data fails.
C3_ChunkedBody ==
    (<<parser.type, input>> \in ChunkedMessages /\ ~fedEmpty) =>
        /\ pLast \in {"", "return"}
        /\ pending = <<>> =>
             /\ InMessageOrder(parser.calls)
             /\ BodyCalls(parser.calls) = ChunksOf(input)

\* the responses whose status is not a three-digit code
BadStatusResponses == {RespBadStatus}

\* C4: the feed_data call that completes such a status line in a response
\* parser fails with HttpParserInvalidStatusError, and after it
\* headers-complete has not been signalled and is_headers_complete() is false.
C4_InvalidStatus ==
    [][(/\ parser.type = "HTTP_RESPONSE"
        /\ input \in BadStatusResponses
        /\ parser._position = 0
        /\ pending' # pending
        /\ find2(parser'.buf, CRLF) >= 0) =>
            /\ pLast' = "HttpParserInvalidStatusError"
            /\ ~HasCalled(parser'.calls, "on_headers_complete")
            /\ ~is_headers_complete(parser')
      ]_vars

\* the header callbacks made for the header called name (in lower case)
HeaderValues(calls, name) ==
    {calls[i].args[2] : i \in {j \in 1..Len(calls) :
        calls[j].cb = "on_header" /\ lower(calls[j].args[1]) = name}}

\* the headers of a response have been parsed
ResponseHeadersParsed ==
    /\ parser.type = "HTTP_RESPONSE"
    /\ is_headers_complete(parser)
    /\ ~IsNone(parser.version)
    /\ ~IsNone(parser.status_code)

\* C5: once the headers of a response are parsed, should_keep_alive() is
\* false for HTTP/1.0 without a Connection header and true for HTTP/1.1
\* without Connection: close and with a declared content-length.
C5_KeepAlive ==
    ResponseHeadersParsed =>
        /\ (/\ Get(parser.version) = <<1, 0>>
            /\ HeaderValues(parser.calls, Bconnection) = {}) =>
                ~should_keep_alive(parser)
        /\ (/\ Get(parser.version) = <<1, 1>>
            /\ \A v \in HeaderValues(parser.calls, Bconnection) :
                    lower(v) # <<"c", "l", "o", "s", "e">>
            /\ \E v \in HeaderValues(parser.calls, Bcontent_length) :
                    ~IsNone(int(v)) /\ Get(int(v)) >= 0) =>
                should_keep_alive(parser)

\* the half of C5 about HTTP/1.1
C5_KeepAlive11 ==
    (/\ ResponseHeadersParsed
     /\ Get(parser.version) = <<1, 1>>
     /\ \A v \in HeaderValues(parser.calls, Bconnection) :
            lower(v) # <<"c", "l", "o", "s", "e">>
     /\ \E v \in HeaderValues(parser.calls, Bcontent_length) :
            ~IsNone(int(v)) /\ Get(int(v)) >= 0) =>
        should_keep_alive(parser)

RECURSIVE HeaderSeq(_, _)
HeaderSeq(calls, name) ==
    IF calls = <<>> THEN <<>>
    ELSE IF Head(calls).cb = "on_header" /\ lower(Head(calls).args[1]) = name
         THEN <<Head(calls).args[2]>> \o HeaderSeq(Tail(calls), name)
         ELSE HeaderSeq(Tail(calls), name)

\* the length a header block declares: that of its last Content-Length
\* header when it is a non-negative integer, the sentinel otherwise
DeclaredLength(calls) ==
    LET vs == HeaderSeq(calls, Bcontent_length) IN
    IF vs = <<>> THEN MaxSize
    ELSE LET v == int(vs[Len(vs)]) IN
         IF IsNone(v) \/ Get(v) < 0 THEN MaxSize ELSE Get(v)

\* C19: the feed_data call that completes a header block does not fail; a
\* Content-Length header with a negative or non-integer value resets the
\* declared content-length to the sentinel, also after an earlier header set
\* a valid length, a valid value sets it, and the remaining-length counter
\* equals the declared length when the headers complete.
C19_ContentLength ==
    [][(parser._position < 2 /\ parser'._position = 2) =>
            /\ pLast' = "return"
            /\ parser'.content_length = DeclaredLength(parser'.calls)
            /\ parser'._clen_rest = parser'.content_length
      ]_vars

\* the parts of C19 the code keeps: no failure, the counter equals the
\* declared length, and a negative value resets a valid one
C19_Kept ==
    [][(parser._position < 2 /\ parser'._position = 2) =>
            /\ pLast' = "return"
            /\ parser'._clen_rest = parser'.content_length
            /\ input = ReqLengthThenNegative =>
                 parser'.content_length = MaxSize
      ]_vars

\* the values of the Connection headers the parser reported, in lower case
ConnectionValues == {lower(v) : v \in HeaderValues(parser.calls, Bconnection)}

Bclose == <<"c", "l", "o", "s", "e">>
Bkeep_alive == <<"k", "e", "e", "p", "-", "a", "l", "i", "v", "e">>
Bupgrade == <<"u", "p", "g", "r", "a", "d", "e">>

\* C21: a Connection header sets the flag that matches its value, compared
\* without regard to case, so that once the headers are parsed
\* should_keep_alive() is false for a message of a version newer than 1.0
\* that carried Connection: close and for an HTTP/1.0 message that did not
\* carry Connection: keep-alive.
C21_ConnectionFlags ==
    (is_headers_complete(parser) /\ ~IsNone(parser.version)
        /\ HasCalled(parser.calls, "on_headers_complete")) =>
        /\ Bclose \in ConnectionValues => "CONNECTION_CLOSE" \in parser.flags
        /\ Bkeep_alive \in ConnectionValues =>
             "CONNECTION_KEEP_ALIVE" \in parser.flags
        /\ Bupgrade \in ConnectionValues =>
             "CONNECTION_UPGRADE" \in parser.flags
        /\ (Get(parser.version) = <<1, 1>> /\ Bclose \in ConnectionValues) =>
             ~should_keep_alive(parser)
        /\ (Get(parser.version) = <<1, 0>>
                /\ Bkeep_alive \notin ConnectionValues) =>
             ~should_keep_alive(parser)

\* C24: every call of feed_data ends, by a return or an error, in every
\* state of the parser and for every input, bytes fed after the message was
\* marked complete included.
C24_Terminates == pLast # "hang"

\* the part of C24 the code keeps: a call on a parser whose message is not
\* complete ends
C24_Kept ==
    [][parser._position < 3 => pLast' # "hang"]_vars

(***************************************************************************)
(* Properties of the per-test sequence.                                    *)
(***************************************************************************)
\* the class or the test method of the test case carries a skip mark
MarkedSkipped == tcase.cls_skip \/ tcase.method_skip

\* the step func was run and run_test resumed with a failure of it
StepFailed(func) ==
    \E i \in 1..Len(delivered) : hooks[i] = func /\ is_failure(delivered[i])

\* every step run_test was resumed from completed without failure
NoStepFailed == \A i \in 1..Len(delivered) : ~is_failure(delivered[i])

HooksCalled == Range(hooks)

\* the traces of kind k in the results delivered so far
RECURSIVE TracesOf(_, _)
TracesOf(results, k) ==
    IF results = <<>> THEN 0
    ELSE Cardinality({i \in 1..Len(Head(results)) : Head(results)[i] = k})
         + TracesOf(Tail(results), k)

\* C6: when the setUp step fails, the test method and tearDown are never
\* called, _post_teardown is still called if the instance has one, the
\* failure is recorded with the runner and addSuccess is not called.
C6_SetUpFailure ==
    StepFailed("setUp") =>
        /\ "testMethod" \notin HooksCalled
        /\ "tearDown" \notin HooksCalled
        /\ tcase._post_teardown => "_post_teardown" \in HooksCalled
        /\ runner.failures = TracesOf(delivered, "failure")
        /\ runner.errors = TracesOf(delivered, "error")
        /\ runner.failures + runner.errors >= 1
        /\ runner.successes = 0

\* C6 witness: a test with _post_teardown ended after its setUp failed
C6_Witness ==
    /\ tpc = "done"
    /\ StepFailed("setUp")
    /\ tcase._post_teardown
    /\ hooks = <<"setUp", "_post_teardown">>

\* the reasons declared by the skip marks of a test
DeclaredReasons(c) ==
    {c.cls_why : x \in {y \in {1} : c.cls_skip}}
    \cup {c.method_why : x \in {y \in {1} : c.method_skip}}

\* C7: a test whose class or method is marked skipped gets exactly one
\* addSkip record, with a declared reason, calls none of _pre_setup, setUp,
\* the test method, tearDown and _post_teardown, and gets no success, failure
\* or error record.
C7_Skip ==
    (MarkedSkipped /\ tpc # "start") =>
        /\ tpc = "done"
        /\ hooks = <<>>
        /\ Len(runner.skips) = 1
        /\ runner.skips[1] \in DeclaredReasons(tcase)
        /\ runner.successes = 0
        /\ runner.failures = 0
        /\ runner.errors = 0

\* C7 witness: a test whose method only is marked skipped was run
C7_Witness ==
    /\ tpc = "done"
    /\ tcase.method_skip /\ ~tcase.cls_skip
    /\ tcase.method_why = "not ready"
    /\ runner.skips = <<"not ready">>

\* the functions of a test case in the order of the per-test sequence
HookOrder(c) ==
    (IF c._pre_setup THEN <<"_pre_setup">> ELSE <<>>)
    \o <<"setUp", "testMethod", "tearDown">>
    \o (IF c._post_teardown THEN <<"_post_teardown">> ELSE <<>>)

\* C8: when no step fails, the functions are called in the order
\* _pre_setup, setUp, test method, tearDown, _post_teardown, and the test
\* ends with exactly one success and no failure, error or skip.
C8_SuccessPath ==
    (~MarkedSkipped /\ NoStepFailed) =>
        /\ Len(hooks) <= Len(HookOrder(tcase))
        /\ hooks = UpTo(HookOrder(tcase), Len(hooks))
        /\ tpc = "done" =>
             /\ hooks = HookOrder(tcase)
             /\ runner = [NoRecords EXCEPT !.successes = 1]
        /\ tpc # "done" => runner = NoRecords

\* C8 witness: a test with both optional hooks ended without a failure
C8_Witness ==
    /\ tpc = "done"
    /\ ~MarkedSkipped
    /\ NoStepFailed
    /\ tcase._pre_setup /\ tcase._post_teardown
    /\ Len(hooks) = 5
    /\ runner.successes = 1

\* C20: when a test is skipped and both its class and its test method
\* declare a skip reason, addSkip records the reason of the method; the
\* reason of the class is recorded only when the method declares none.
C20_SkipReason ==
    (MarkedSkipped /\ tpc = "done") =>
        runner.skips = <<IF tcase.method_why # "" THEN tcase.method_why
                         ELSE tcase.cls_why>>

\* the part of C20 the code keeps: the reason of a test whose class or
\* method alone declares one
C20_Kept ==
    (MarkedSkipped /\ tpc = "done"
        /\ (tcase.method_why = "" \/ tcase.cls_why = "")) =>
        runner.skips = <<IF tcase.method_why # "" THEN tcase.method_why
                         ELSE tcase.cls_why>>

(***************************************************************************)
(* Properties of Event.fire and Event.waiter.                              *)
(***************************************************************************)
\* what a handler is to be called with: the error when one is given, else
\* the data when data is given, else nothing more than the owner
ExpectedArg(exc, data) ==
    IF exc # None THEN <<"exc", exc[1]>>
    ELSE IF data # None THEN <<"data", data[1]>>
    ELSE <<"none", "">>

\* the step is a fire(exc, data) on the event name of o, made directly or
\* through fire_event
IsFire(o, name, exc, data) ==
    Fire(o, name, exc, data) \/ FireEvent(o, name, exc, data)

\* C17: a fire(error, data) on an event that has an owner and has not fired
\* calls every bound handler exactly once, in the order of the binds, each
\* with the owner and exactly one of: the error when one is given (also when
\* data is given too), else the data when given, else no extra argument.
C17_FireArgs ==
    [][\A o \in Owners, name \in Names, exc \in OptExcs, data \in OptDatas :
        (/\ LastOn(evLast', {"fire", "fire_event"}, o, name)
         /\ Has(events[o], name)
         /\ Lookup(events[o], name)._self # NoOwner
         /\ IsFire(o, name, exc, data)) =>
            LET bound == ListOf(Lookup(events[o], name))
                calls == evLast'.invoked
            IN  /\ Len(calls) = Len(bound)
                /\ \A i \in 1..Len(calls) :
                     /\ calls[i].hnd = bound[i]
                     /\ calls[i].o = o
                     /\ calls[i].arg = ExpectedArg(exc, data)
      ]_vars

\* a fire with an error called two different handlers, in the order of
\* their binds, with the error
C17_Witness ==
    /\ evLast.op \in {"fire", "fire_event"}
    /\ Len(evLast.invoked) = 2
    /\ evLast.invoked[1].hnd = "H2"
    /\ evLast.invoked[2].hnd = "H1"
    /\ \A i \in 1..2 : evLast.invoked[i].arg = <<"exc", "E1">>

\* the events that hold the future f as their waiter
HoldersOf(f) ==
    {<<o, name>> \in Owners \X Names :
        Has(events[o], name) /\ Lookup(events[o], name)._waiter = Some(f)}

\* C18: waiter() returns the pending waiter the event holds, and makes a new
\* pending one only when it holds none, so that each pending waiter is held
\* by one event; a fire on an event that has not fired resolves the waiter it
\* holds, with the error if one is given and else with the owner, and clears
\* the reference; a resolved waiter is not resolved again.
C18_Waiter ==
    [][/\ \A o \in Owners, name \in Names :
            Has(events[o], name) =>
              LET ev == Lookup(events[o], name)
                  ev2 == Lookup(events'[o], name)
              IN  /\ (LastOn(evLast', {"waiter"}, o, name)
                        /\ ~IsNone(ev._waiter)) =>
                        (/\ evLast'.resolved = ev._waiter
                         /\ futures' = futures
                         /\ ev2._waiter = ev._waiter
                         /\ futures[Get(ev._waiter)].state = "pending")
                  /\ (LastOn(evLast', {"waiter"}, o, name)
                        /\ IsNone(ev._waiter)) =>
                        (/\ evLast'.resolved = Some(Len(futures) + 1)
                         /\ Len(futures') = Len(futures) + 1
                         /\ futures'[Len(futures')].state = "pending"
                         /\ ev2._waiter = evLast'.resolved)
                  /\ \A exc \in OptExcs, data \in OptDatas :
                        (/\ LastOn(evLast', {"fire", "fire_event"}, o, name)
                         /\ ev._self # NoOwner
                         /\ ~IsNone(ev._waiter)
                         /\ IsFire(o, name, exc, data)) =>
                            (/\ futures[Get(ev._waiter)].state = "pending"
                             /\ futures'[Get(ev._waiter)] =
                                  (IF exc # None
                                   THEN [state |-> "exception", value |-> exc[1]]
                                   ELSE [state |-> "result", value |-> o])
                             /\ IsNone(ev2._waiter))
       /\ \A f \in 1..Len(futures) :
            /\ futures[f].state # "pending" => futures'[f] = futures[f]
            /\ futures[f].state = "pending" => Cardinality(HoldersOf(f)) = 1
            /\ futures[f].state # "pending" => HoldersOf(f) = {}
      ]_vars

\* an event whose first waiter was resolved with the error of a fire holds
\* a second, pending waiter, returned by the last call
C18_Witness ==
    /\ Len(futures) = 2
    /\ futures[1] = [state |-> "exception", value |-> "E1"]
    /\ futures[2].state = "pending"
    /\ evLast.op = "waiter"
    /\ evLast.resolved = Some(2)
    /\ Has(events[evLast.owner], evLast.name)
    /\ Lookup(events[evLast.owner], evLast.name)._waiter = Some(2)
    /\ Lookup(events[evLast.owner], evLast.name)._self # NoOwner

(***************************************************************************)
(* Properties of TestRequest.run and of run_test_function.                 *)
(***************************************************************************)
\* how many times x is in the sequence q
Occurrences(q, x) == Cardinality({i \in 1..Len(q) : q[i] = x})

\* startTest and stopTest of n test cases in turn
RECURSIVE StartStops(_)
StartStops(n) ==
    IF n = 0 THEN <<>> ELSE <<"startTest", "stopTest">> \o StartStops(n - 1)

\* tearDownClass, if the class defines it
TearDownIfDefined == IF rcls.tearDownClass THEN <<"tearDownClass">> ELSE <<>>

\* run() is past setUpClass of a class that is not skipped, has test cases
\* and defines setUpClass
SetUpClassDone ==
    /\ ~rcls.skip
    /\ Len(rcls.tests) >= 1
    /\ rcls.setUpClass
    /\ cdelivered # <<>>

\* C12: for a class that is not skipped and has test cases, a failed
\* setUpClass is recorded with the runner, no test case is started and no
\* per-test sequence runs, and tearDownClass (if defined) still runs; after
\* a setUpClass that did not fail every test case loaded is started, run to
\* the end of run_test and stopped, between setUpClass and tearDownClass.
C12_SetUpClass ==
    [][/\ (SetUpClassDone' /\ cdelivered'[1] # <<>>) =>
            /\ runner'.errors + runner'.failures >= Len(cdelivered'[1])
            /\ should_stop'
            /\ Occurrences(rlog', "startTest") = 0
            /\ rpc' # "run_test"
            /\ tpc' = "none"
            /\ hooks' = <<>>
            /\ rpc' \in {"test_result", "done"} =>
                 rlog' = <<"setUpClass">> \o TearDownIfDefined
                            \o <<"test_result">>
       /\ (SetUpClassDone' /\ cdelivered'[1] = <<>>) =>
            /\ Occurrences(rlog', "stopTest") > Occurrences(rlog, "stopTest") =>
                 (rpc = "run_test" /\ tpc = "done")
            /\ rpc' \in {"test_result", "done"} =>
                 rlog' = <<"setUpClass">> \o StartStops(Len(rcls.tests))
                            \o TearDownIfDefined \o <<"test_result">>
      ]_vars

\* run() ended for a class with two test cases whose setUpClass failed and
\* whose tearDownClass ran
C12_Witness ==
    /\ SetUpClassDone
    /\ Len(rcls.tests) = 2
    /\ cdelivered[1] # <<>>
    /\ rcls.tearDownClass
    /\ rpc = "done"
    /\ rlog = <<"setUpClass", "tearDownClass", "test_result">>
    /\ runner.errors >= 1

\* C13: a pass of run() sends one test_result message, with the result of
\* the runner, as its last step: none is sent before, the message carries
\* the records of the runner at the end, and it follows every stopTest and
\* tearDownClass; this for a class with no test case, a skipped class and a
\* class whose setUpClass or tests failed alike.
C13_TestResult ==
    /\ Len(sent) <= 1
    /\ Occurrences(rlog, "test_result") = Len(sent)
    /\ rpc \in {"start", "setUpClass", "run_test", "tearDownClass"} =>
         sent = <<>>
    /\ rpc \in {"test_result", "done"} =>
         /\ sent = <<runner>>
         /\ rlog[Len(rlog)] = "test_result"

\* run() ended for a class with two test cases, one of which failed, and
\* the one message sent carries the error
C13_Witness ==
    /\ rpc = "done"
    /\ Len(rcls.tests) = 2
    /\ Occurrences(rlog, "stopTest") = 2
    /\ runner.errors >= 1
    /\ runner.successes >= 1
    /\ sent = <<runner>>

\* the function run_test_function was called with in this step, None if the
\* step called none
CalledNow ==
    IF Len(hooks') > Len(hooks) THEN Some(hooks'[Len(hooks')])
    ELSE IF /\ Len(rlog') > Len(rlog)
            /\ rlog'[Len(rlog')] \in {"setUpClass", "tearDownClass"}
         THEN Some(rlog'[Len(rlog')])
         ELSE None

\* C14: a call of run_test_function with a function marked to run on the
\* arbiter sends one run command, carrying a CallableTest for the function,
\* to the arbiter, and leaves the worker reference of the test as it was
\* before the call.
C14_ArbiterDispatch ==
    [][(CalledNow # None /\ CalledNow[1] \in rcls.on_arbiter) =>
            /\ Len(mailbox') = Len(mailbox) + 1
            /\ mailbox'[Len(mailbox')].command = "run"
            /\ mailbox'[Len(mailbox')].funcname = CalledNow[1]
            /\ tworker' = tworker
      ]_vars

\* the part of C14 the code keeps: the worker reference of the test after a
\* call of run_test_function is the one before it
C14_Kept ==
    [][CalledNow # None => tworker' = tworker]_vars

\* C25: an event that has fired (its owner reference is None) is one-time
\* and has no handler; once fired it stays fired and without handlers under
\* every later call; a repeatable event has never fired, and a fire leaves
\* its handlers as they were.
C25_Fired ==
    [][\A o \in Owners, name \in Names :
        Has(events'[o], name) =>
            LET ev2 == Lookup(events'[o], name)
            IN  /\ ev2._self = NoOwner =>
                     (ev2._onetime # 0 /\ ListOf(ev2) = <<>>)
                /\ ev2._onetime = 0 => ev2._self = o
                /\ Has(events[o], name) =>
                     LET ev == Lookup(events[o], name)
                     IN  /\ ev._self = NoOwner => ev2._self = NoOwner
                         /\ (/\ ev._onetime = 0
                             /\ LastOn(evLast', {"fire", "fire_event"},
                                       o, name)) =>
                                ev2._handlers = ev._handlers
      ]_vars

\* a bind was refused on a one-time event that had fired with handlers
\* bound, and the same owner has a repeatable event that kept its handlers
C25_Witness ==
    \E o \in Owners, name \in Names, other \in Names :
        /\ Has(events[o], name) /\ Has(events[o], other)
        /\ Lookup(events[o], name)._onetime # 0
        /\ Lookup(events[o], name)._self = NoOwner
        /\ LastOn(evLast, {"bind"}, o, name)
        /\ evLast.raised
        /\ Lookup(events[o], other)._onetime = 0
        /\ ListOf(Lookup(events[o], other)) # <<>>

(***************************************************************************)
(* More properties of the per-test sequence.                               *)
(***************************************************************************)
\* the position of the call of func among the calls made, 0 if not called
CalledAt(func) ==
    IF \E i \in 1..Len(hooks) : hooks[i] = func
    THEN CHOOSE i \in 1..Len(hooks) : hooks[i] = func
    ELSE 0

\* run_test was resumed with the result of func
Resumed(func) == CalledAt(func) # 0 /\ Len(delivered) >= CalledAt(func)

\* the result run_test was resumed with after func
ResultOf(func) == delivered[CalledAt(func)]

\* C23: whenever setUp succeeded, the test method is run and tearDown is run
\* exactly once, right after the test method step, whether that step passed
\* or failed; the outcome of the test method is stored on the instance only
\* when it did not fail; a tearDown failure makes the test not successful
\* even if the test method passed.
C23_TearDown ==
    (Resumed("setUp") /\ ResultOf("setUp") = <<>>) =>
        /\ CalledAt("testMethod") = CalledAt("setUp") + 1
        /\ Occurrences(hooks, "testMethod") = 1
        /\ Occurrences(hooks, "tearDown") <= 1
        /\ Resumed("testMethod") =>
             /\ CalledAt("tearDown") = CalledAt("testMethod") + 1
             /\ ResultOf("testMethod") = <<>> =>
                  stored = Some(ResultOf("testMethod"))
             /\ ResultOf("testMethod") # <<>> => stored = None
        /\ ~Resumed("testMethod") => stored = None
        /\ (Resumed("tearDown") /\ ResultOf("tearDown") # <<>>) =>
             (~success /\ runner.successes = 0)
        /\ tpc = "done" => Occurrences(hooks, "tearDown") = 1

\* a test ended whose test method failed and whose tearDown was run and did
\* not fail
C23_Witness ==
    /\ tpc = "done"
    /\ Resumed("setUp") /\ ResultOf("setUp") = <<>>
    /\ Resumed("testMethod") /\ ResultOf("testMethod") # <<>>
    /\ Resumed("tearDown") /\ ResultOf("tearDown") = <<>>
    /\ stored = None
    /\ runner.successes = 0

\* C26: a test gets at most one success record, and none together with a
\* failure, error or skip record; it ends with one success, or one skip, or
\* one or more failure and error records, never a mix.
C26_OneOutcome ==
    /\ runner.successes <= 1
    /\ Len(runner.skips) <= 1
    /\ runner.successes = 1 =>
         (runner.failures = 0 /\ runner.errors = 0 /\ runner.skips = <<>>)
    /\ runner.skips # <<>> => (runner.failures = 0 /\ runner.errors = 0)
    /\ tpc = "done" =>
         \/ runner.successes = 1
         \/ Len(runner.skips) = 1
         \/ runner.failures + runner.errors >= 1

\* a test ended whose test method and tearDown both failed: several failure
\* and error records and no success
C26_Witness ==
    /\ tpc = "done"
    /\ Resumed("testMethod") /\ ResultOf("testMethod") # <<>>
    /\ Resumed("tearDown") /\ ResultOf("tearDown") # <<>>
    /\ runner.failures >= 1
    /\ runner.errors >= 1
    /\ runner.successes = 0
    /\ runner.skips = <<>>

(***************************************************************************)
(* Properties of a fire() whose handlers bind and unbind.                  *)
(***************************************************************************)
\* the handlers called so far are the first of those bound when fire() was
\* called, no handler raised out of fire(), and fire() ends with all of
\* them called
SnapshotKept ==
    /\ fpc # "raised"
    /\ Len(finvoked) <= Len(fbound)
    /\ finvoked = SubSeq(fbound, 1, Len(finvoked))
    /\ fpc = "loop" => Len(finvoked) < Len(fbound)
    /\ fpc = "done" => finvoked = fbound

\* C22: the handlers called by one fire() are exactly those bound when it
\* was called: a handler that calls bind() or unbind() on the event during
\* the fire, of a one-time or a repeatable event, adds none to and removes
\* none from the handlers called, and the fire ends after calling them.
C22_Snapshot == SnapshotKept

\* the part of C22 the code keeps: handlers that call unbind(), and no
\* bind(), change nothing of the fire in progress
C22_Kept ==
    (\A h \in Handlers : does[h][1] # "bind") => SnapshotKept

====
